---- MODULE Spec2Model ----
(***************************************************************************)
(* Intelligent model router of moltbot: intent classification, tier       *)
(* registry, bias and budget policy stages, model resolution, prompt      *)
(* adaptation and the analytics event the router records.                 *)
(*                                                                         *)
(* Conventions of the translation:                                         *)
(*  - an optional value (undefined / null / absent property) is the empty *)
(*    sequence None, a present value v is Some(v) = <<v>>;                 *)
(*  - a string that the code parses or scans is a sequence of tokens;     *)
(*  - USD amounts are whole units 0..MaxUsd, classifier scores are in     *)
(*    hundredths and confidences in thousandths (the code's floats).      *)
(***************************************************************************)
EXTENDS Integers, Sequences, FiniteSets, TLC

None == <<>>
Some(v) == <<v>>

Min(a, b) == IF a <= b THEN a ELSE b

\* ------------------------------------------------------------------------
\* Bounds of the model
\* ------------------------------------------------------------------------

\* Caps and spend totals range over 0..MaxUsd.
MaxUsd == 1

\* Model-ref strings of the resolution step have at most MaxRefLen tokens.
MaxRefLen == 3

\* System prompts of the adaptation step have at most MaxPromptLen tokens.
MaxPromptLen == 4

\* At most MaxLoggers calls of createRoutingAnalyticsLogger are made.
MaxLoggers == 2

\* At most MaxRecords record calls are made on the loggers.
MaxRecords == 3

\* ------------------------------------------------------------------------
\* Tier registry (model-tiers.ts)
\* ------------------------------------------------------------------------

TIER_ORDER == <<"t0", "t1", "t2", "t3", "t4">>

TierIds == {TIER_ORDER[i] : i \in 1..Len(TIER_ORDER)}

\* TIER_ORDER.indexOf(tier), 0-based
tierIndex(tier) == (CHOOSE i \in 1..Len(TIER_ORDER) : TIER_ORDER[i] = tier) - 1

\* TIER_ORDER[idx] with the code's 0-based index
tierAt(idx) == TIER_ORDER[idx + 1]

\* maxTier: the higher of two tiers
maxTier(tier, maxAllowed) ==
    IF tierIndex(tier) >= tierIndex(maxAllowed) THEN tier ELSE maxAllowed

clampTier(tier, maxAllowed) ==
    IF tierIndex(tier) <= tierIndex(maxAllowed) THEN tier ELSE maxAllowed

Intents == {"trivial", "simple", "standard", "complex", "flagship", "explicit"}

INTENT_TO_MIN_TIER ==
    [trivial |-> "t0", simple |-> "t1", standard |-> "t2",
     complex |-> "t3", flagship |-> "t4", explicit |-> "t4"]

\* the lookup with the standard entry lowered to the simple one
resolveMinTierForIntentFlat(intent) ==
    IF intent = "standard" THEN "t1" ELSE INTENT_TO_MIN_TIER[intent]

resolveMinTierForIntent(intent) == INTENT_TO_MIN_TIER[intent]

\* costPer1kInput of TIER_DEFINITIONS, in thousandths of a USD
costPer1kInput == [t0 |-> 0, t1 |-> 0, t2 |-> 3, t3 |-> 15, t4 |-> 15]

Ref(provider, model) == [provider |-> <<provider>>, model |-> <<model>>]

DEFAULT_TIER_MODELS ==
    [t0 |-> None,
     t1 |-> Some(Ref("ollama", "qwen2.5:7b")),
     t2 |-> Some(Ref("anthropic", "claude-sonnet-4-5")),
     t3 |-> Some(Ref("anthropic", "claude-sonnet-4-5")),
     t4 |-> Some(Ref("anthropic", "claude-opus-4-5"))]

getDefaultTierModel(tier) == DEFAULT_TIER_MODELS[tier]

\* ------------------------------------------------------------------------
\* Router policy stages (intelligent-router.ts)
\* ------------------------------------------------------------------------

Biases == {"cost", "balanced", "quality"}

\* applyBias with a quality shift of two tiers
applyBiasQualityTwo(tier, bias) ==
    IF bias = "balanced" THEN tier
    ELSE LET idx == tierIndex(tier) IN
         IF bias = "cost"
         THEN IF idx <= 1 THEN tier ELSE tierAt(idx - 1)
         ELSE IF idx >= 3 THEN "t4" ELSE tierAt(idx + 2)

applyBiasUnguarded(tier, bias) ==
    IF bias = "balanced" THEN tier
    ELSE LET idx == tierIndex(tier) IN
         IF bias = "cost"
         THEN IF idx <= 0 THEN tier ELSE tierAt(idx - 1)
         ELSE IF bias = "quality"
              THEN IF idx >= 4 THEN tier ELSE tierAt(idx + 1)
              ELSE tier

applyBias(tier, bias) ==
    IF bias = "balanced" THEN tier
    ELSE LET idx == tierIndex(tier) IN
         IF bias = "cost"
         THEN IF idx <= 1 THEN tier ELSE tierAt(idx - 1)
         ELSE IF bias = "quality"
              THEN IF idx >= 4 THEN tier ELSE tierAt(idx + 1)
              ELSE tier

\* JS truthiness of an optional boolean
Truthy(opt) == opt = Some(TRUE)

\* budget.currentSpend?.<field>
SpendField(budget, field) ==
    IF budget.currentSpend = None THEN None ELSE budget.currentSpend[1][field]

applyBudgetConstraintsStrict(tier, routingConfig) ==
    LET budget == routingConfig.budget IN
    IF budget = None THEN tier
    ELSE LET b == budget[1] IN
         IF Truthy(b.preferFree) THEN clampTier(tier, "t1")
         ELSE IF /\ b.dailyCapUsd # None
                 /\ SpendField(b, "dailyUsd") # None
                 /\ SpendField(b, "dailyUsd")[1] > b.dailyCapUsd[1]
              THEN clampTier(tier, "t1")
              ELSE IF /\ b.monthlyCapUsd # None
                      /\ SpendField(b, "monthlyUsd") # None
                      /\ SpendField(b, "monthlyUsd")[1] > b.monthlyCapUsd[1]
                   THEN clampTier(tier, "t1")
                   ELSE tier

applyBudgetConstraintsFailClosed(tier, routingConfig) ==
    LET budget == routingConfig.budget IN
    IF budget = None THEN tier
    ELSE LET b == budget[1] IN
         IF Truthy(b.preferFree) THEN clampTier(tier, "t1")
         ELSE IF /\ b.dailyCapUsd # None
                 /\ \/ SpendField(b, "dailyUsd") = None
                    \/ SpendField(b, "dailyUsd")[1] >= b.dailyCapUsd[1]
              THEN clampTier(tier, "t1")
              ELSE IF /\ b.monthlyCapUsd # None
                      /\ \/ SpendField(b, "monthlyUsd") = None
                         \/ SpendField(b, "monthlyUsd")[1] >= b.monthlyCapUsd[1]
                   THEN clampTier(tier, "t1")
                   ELSE tier

applyBudgetConstraints(tier, routingConfig) ==
    LET budget == routingConfig.budget IN
    IF budget = None THEN tier
    ELSE LET b == budget[1] IN
         IF Truthy(b.preferFree) THEN clampTier(tier, "t1")
         ELSE IF /\ b.dailyCapUsd # None
                 /\ SpendField(b, "dailyUsd") # None
                 /\ SpendField(b, "dailyUsd")[1] >= b.dailyCapUsd[1]
              THEN clampTier(tier, "t1")
              ELSE IF /\ b.monthlyCapUsd # None
                      /\ SpendField(b, "monthlyUsd") # None
                      /\ SpendField(b, "monthlyUsd")[1] >= b.monthlyCapUsd[1]
                   THEN clampTier(tier, "t1")
                   ELSE tier

\* ------------------------------------------------------------------------
\* Model references
\* ------------------------------------------------------------------------

\* A model-ref string is a sequence of tokens: "/" is the separator, every
\* other token is a piece of a provider or model identifier.
RefTokens == {"x", "/"}

SeqsUpTo(S, n) == UNION {[1..k -> S] : k \in 0..n}

RefStrings == SeqsUpTo(RefTokens, MaxRefLen)

DEFAULT_PROVIDER == <<"anthropic">>

\* index of the first "/" of s, 0 when there is none
FirstSlash(s) ==
    IF \E i \in 1..Len(s) : s[i] = "/"
    THEN CHOOSE i \in 1..Len(s) : s[i] = "/" /\ \A j \in 1..(i - 1) : s[j] # "/"
    ELSE 0

\* "<provider>/<model-identifier>", split on the first "/" only; no separator:
\* the default provider; a string with an empty part does not parse (None).
parseModelRef(raw, defaultProvider) ==
    IF raw = <<>> THEN None
    ELSE LET slash == FirstSlash(raw) IN
         IF slash = 0 THEN Some([provider |-> defaultProvider, model |-> raw])
         ELSE LET provider == SubSeq(raw, 1, slash - 1)
                  model == SubSeq(raw, slash + 1, Len(raw))
              IN IF provider = <<>> \/ model = <<>> THEN None
                 ELSE Some([provider |-> provider, model |-> model])

\* JS truthiness of an optional string
TruthyString(opt) == opt # None /\ opt[1] # <<>>

FALLBACK_MODEL == [provider |-> DEFAULT_PROVIDER, model |-> <<"claude-sonnet-4-5">>]

\* cfg.agents?.defaults?.model is undefined, a string, or an object with an
\* optional .primary string: [kind, value].
GlobalModels(strings) ==
    {[kind |-> "undefined", value |-> None]}
        \cup {[kind |-> "string", value |-> Some(s)] : s \in strings}
        \cup {[kind |-> "object", value |-> v] : v \in {None} \cup {Some(s) : s \in strings}}

resolveModelForTierDefaultFirst(tier, routingConfig, cfg) ==
    LET tierModel == routingConfig.tiers[tier]
        parsedTier == IF TruthyString(tierModel)
                      THEN parseModelRef(tierModel[1], DEFAULT_PROVIDER) ELSE None
        defaultModel == getDefaultTierModel(tier)
        globalPrimary == cfg.model
        parsedString == IF globalPrimary.kind = "string"
                        THEN parseModelRef(globalPrimary.value[1], DEFAULT_PROVIDER) ELSE None
        parsedObject == IF globalPrimary.kind = "object" /\ TruthyString(globalPrimary.value)
                        THEN parseModelRef(globalPrimary.value[1], DEFAULT_PROVIDER) ELSE None
    IN IF defaultModel # None THEN defaultModel[1]
       ELSE IF parsedTier # None THEN parsedTier[1]
       ELSE IF parsedString # None THEN parsedString[1]
       ELSE IF parsedObject # None THEN parsedObject[1]
       ELSE FALLBACK_MODEL

resolveModelForTier(tier, routingConfig, cfg) ==
    LET tierModel == routingConfig.tiers[tier]
        parsedTier == IF TruthyString(tierModel)
                      THEN parseModelRef(tierModel[1], DEFAULT_PROVIDER) ELSE None
        defaultModel == getDefaultTierModel(tier)
        globalPrimary == cfg.model
        parsedString == IF globalPrimary.kind = "string"
                        THEN parseModelRef(globalPrimary.value[1], DEFAULT_PROVIDER) ELSE None
        parsedObject == IF globalPrimary.kind = "object" /\ TruthyString(globalPrimary.value)
                        THEN parseModelRef(globalPrimary.value[1], DEFAULT_PROVIDER) ELSE None
    IN IF parsedTier # None THEN parsedTier[1]
       ELSE IF defaultModel # None THEN defaultModel[1]
       ELSE IF parsedString # None THEN parsedString[1]
       ELSE IF parsedObject # None THEN parsedObject[1]
       ELSE FALLBACK_MODEL

\* ------------------------------------------------------------------------
\* Intent classifier (intent-classifier.ts)
\* ------------------------------------------------------------------------

\* A message is its text together with what the classifier's tests read off
\* the trimmed text: its length, which patterns of each pattern list match
\* (flagship and complex: the set of matching indices), the word count
\* (split on whitespace), the number of "?" and the code-block and
\* numbered-list tests. In a text or a signal name, [fence] stands for the
\* three-backtick code fence.

MsgEmpty ==
    [text |-> "",
     length |-> 0, trimmedLength |-> 0, explicit |-> FALSE, trivial |-> FALSE,
     hasQuestion |-> FALSE,
     flagship |-> {}, complex |-> {}, wordCount |-> 1, hasCodeBlock |-> FALSE,
     questionCount |-> 0, hasNumberedList |-> FALSE, simple |-> FALSE]

MsgBlank ==
    [text |-> "   ",
     length |-> 3, trimmedLength |-> 0, explicit |-> FALSE, trivial |-> FALSE,
     hasQuestion |-> FALSE,
     flagship |-> {}, complex |-> {}, wordCount |-> 1, hasCodeBlock |-> FALSE,
     questionCount |-> 0, hasNumberedList |-> FALSE, simple |-> FALSE]

MsgHi ==
    [text |-> "hi",
     length |-> 2, trimmedLength |-> 2, explicit |-> FALSE, trivial |-> TRUE,
     hasQuestion |-> FALSE,
     flagship |-> {}, complex |-> {}, wordCount |-> 1, hasCodeBlock |-> FALSE,
     questionCount |-> 0, hasNumberedList |-> FALSE, simple |-> FALSE]

MsgDigits ==
    [text |-> "42",
     length |-> 2, trimmedLength |-> 2, explicit |-> FALSE, trivial |-> TRUE,
     hasQuestion |-> FALSE,
     flagship |-> {}, complex |-> {}, wordCount |-> 1, hasCodeBlock |-> FALSE,
     questionCount |-> 0, hasNumberedList |-> FALSE, simple |-> FALSE]

MsgSlashModel ==
    [text |-> "/model opus",
     length |-> 11, trimmedLength |-> 11, explicit |-> TRUE, trivial |-> FALSE,
     hasQuestion |-> FALSE,
     flagship |-> {}, complex |-> {}, wordCount |-> 2, hasCodeBlock |-> FALSE,
     questionCount |-> 0, hasNumberedList |-> FALSE, simple |-> FALSE]

MsgUseOpusFlagship ==
    [text |-> "use opus for a full system design mock interview",
     length |-> 48, trimmedLength |-> 48, explicit |-> TRUE, trivial |-> FALSE,
     hasQuestion |-> FALSE,
     flagship |-> {1, 2}, complex |-> {1}, wordCount |-> 9, hasCodeBlock |-> FALSE,
     questionCount |-> 0, hasNumberedList |-> FALSE, simple |-> FALSE]

MsgDebugIt ==
    [text |-> "debug it",
     length |-> 8, trimmedLength |-> 8, explicit |-> FALSE, trivial |-> FALSE,
     hasQuestion |-> FALSE,
     flagship |-> {}, complex |-> {4}, wordCount |-> 2, hasCodeBlock |-> FALSE,
     questionCount |-> 0, hasNumberedList |-> FALSE, simple |-> FALSE]

MsgRfcQuestion ==
    [text |-> "RFC?",
     length |-> 4, trimmedLength |-> 4, explicit |-> FALSE, trivial |-> FALSE,
     hasQuestion |-> TRUE,
     flagship |-> {10}, complex |-> {}, wordCount |-> 1, hasCodeBlock |-> FALSE,
     questionCount |-> 1, hasNumberedList |-> FALSE, simple |-> FALSE]

MsgWhatIsSgd ==
    [text |-> "what is SGD?",
     length |-> 12, trimmedLength |-> 12, explicit |-> FALSE, trivial |-> FALSE,
     hasQuestion |-> TRUE,
     flagship |-> {}, complex |-> {}, wordCount |-> 3, hasCodeBlock |-> FALSE,
     questionCount |-> 1, hasNumberedList |-> FALSE, simple |-> TRUE]

MsgWeekend ==
    [text |-> "tell me about your weekend plans",
     length |-> 32, trimmedLength |-> 32, explicit |-> FALSE, trivial |-> FALSE,
     hasQuestion |-> FALSE,
     flagship |-> {}, complex |-> {}, wordCount |-> 6, hasCodeBlock |-> FALSE,
     questionCount |-> 0, hasNumberedList |-> FALSE, simple |-> FALSE]

MsgSummarize ==
    [text |-> "please summarize the meeting notes from yesterday and also list the action items for everyone on the team",
     length |-> 105, trimmedLength |-> 105, explicit |-> FALSE, trivial |-> FALSE,
     hasQuestion |-> FALSE,
     flagship |-> {}, complex |-> {}, wordCount |-> 18, hasCodeBlock |-> FALSE,
     questionCount |-> 0, hasNumberedList |-> FALSE, simple |-> FALSE]

MsgAttention ==
    [text |-> "explain step by step how attention mechanisms work in transformers",
     length |-> 66, trimmedLength |-> 66, explicit |-> FALSE, trivial |-> FALSE,
     hasQuestion |-> FALSE,
     flagship |-> {}, complex |-> {10, 14}, wordCount |-> 10, hasCodeBlock |-> FALSE,
     questionCount |-> 0, hasNumberedList |-> FALSE, simple |-> FALSE]

MsgMockInterview ==
    [text |-> "let's do a full system design mock interview for a recommendation system from scratch",
     length |-> 85, trimmedLength |-> 85, explicit |-> FALSE, trivial |-> FALSE,
     hasQuestion |-> FALSE,
     flagship |-> {1, 2, 3}, complex |-> {1}, wordCount |-> 14, hasCodeBlock |-> FALSE,
     questionCount |-> 0, hasNumberedList |-> FALSE, simple |-> FALSE]

MsgDeepDive ==
    [text |-> "deep dive into the code review and refactor plan",
     length |-> 48, trimmedLength |-> 48, explicit |-> FALSE, trivial |-> FALSE,
     hasQuestion |-> FALSE,
     flagship |-> {5}, complex |-> {2, 3}, wordCount |-> 9, hasCodeBlock |-> FALSE,
     questionCount |-> 0, hasNumberedList |-> FALSE, simple |-> FALSE]

MsgWhatIsDocker ==
    [text |-> "what is docker?",
     length |-> 15, trimmedLength |-> 15, explicit |-> FALSE, trivial |-> FALSE,
     hasQuestion |-> TRUE,
     flagship |-> {}, complex |-> {15}, wordCount |-> 3, hasCodeBlock |-> FALSE,
     questionCount |-> 1, hasNumberedList |-> FALSE, simple |-> TRUE]

MsgQuestionsList ==
    [text |-> "why? how?\n1. one\n2. two",
     length |-> 23, trimmedLength |-> 23, explicit |-> FALSE, trivial |-> FALSE,
     hasQuestion |-> TRUE,
     flagship |-> {}, complex |-> {}, wordCount |-> 6, hasCodeBlock |-> FALSE,
     questionCount |-> 2, hasNumberedList |-> TRUE, simple |-> FALSE]

MsgDebugCode ==
    [text |-> "debug this [fence]x = 1[fence]",
     length |-> 22, trimmedLength |-> 22, explicit |-> FALSE, trivial |-> FALSE,
     hasQuestion |-> FALSE,
     flagship |-> {}, complex |-> {4}, wordCount |-> 5, hasCodeBlock |-> TRUE,
     questionCount |-> 0, hasNumberedList |-> FALSE, simple |-> FALSE]

MsgSixtyWords ==
    [text |-> "word x 60",
     length |-> 299, trimmedLength |-> 299, explicit |-> FALSE, trivial |-> FALSE,
     hasQuestion |-> FALSE,
     flagship |-> {}, complex |-> {}, wordCount |-> 60, hasCodeBlock |-> FALSE,
     questionCount |-> 0, hasNumberedList |-> FALSE, simple |-> FALSE]

MsgLong ==
    [text |-> "word x 101",
     length |-> 504, trimmedLength |-> 504, explicit |-> FALSE, trivial |-> FALSE,
     hasQuestion |-> FALSE,
     flagship |-> {}, complex |-> {}, wordCount |-> 101, hasCodeBlock |-> FALSE,
     questionCount |-> 0, hasNumberedList |-> FALSE, simple |-> FALSE]

MsgRefactor ==
    [text |-> "refactor the parser",
     length |-> 19, trimmedLength |-> 19, explicit |-> FALSE, trivial |-> FALSE,
     hasQuestion |-> FALSE,
     flagship |-> {}, complex |-> {3}, wordCount |-> 3, hasCodeBlock |-> FALSE,
     questionCount |-> 0, hasNumberedList |-> FALSE, simple |-> FALSE]

MsgYesUseClaude ==
    [text |-> "yes, use claude",
     length |-> 15, trimmedLength |-> 15, explicit |-> TRUE, trivial |-> FALSE,
     hasQuestion |-> FALSE,
     flagship |-> {}, complex |-> {}, wordCount |-> 3, hasCodeBlock |-> FALSE,
     questionCount |-> 0, hasNumberedList |-> FALSE, simple |-> FALSE]

MsgUseOpus ==
    [text |-> "use opus",
     length |-> 8, trimmedLength |-> 8, explicit |-> TRUE, trivial |-> FALSE,
     hasQuestion |-> FALSE,
     flagship |-> {}, complex |-> {}, wordCount |-> 2, hasCodeBlock |-> FALSE,
     questionCount |-> 0, hasNumberedList |-> FALSE, simple |-> FALSE]

MsgConvertRefactor ==
    [text |-> "convert and refactor the debug script",
     length |-> 37, trimmedLength |-> 37, explicit |-> FALSE, trivial |-> FALSE,
     hasQuestion |-> FALSE,
     flagship |-> {}, complex |-> {3, 4}, wordCount |-> 6, hasCodeBlock |-> FALSE,
     questionCount |-> 0, hasNumberedList |-> FALSE, simple |-> TRUE]

MsgManyComplex ==
    [text |-> "implement, debug, refactor and optimize the docker system design step by step",
     length |-> 77, trimmedLength |-> 77, explicit |-> FALSE, trivial |-> FALSE,
     hasQuestion |-> FALSE,
     flagship |-> {}, complex |-> {1, 3, 4, 5, 6, 10, 15}, wordCount |-> 12, hasCodeBlock |-> FALSE,
     questionCount |-> 0, hasNumberedList |-> FALSE, simple |-> FALSE]

MsgRfc ==
    [text |-> "RFC 2119",
     length |-> 8, trimmedLength |-> 8, explicit |-> FALSE, trivial |-> FALSE,
     hasQuestion |-> FALSE,
     flagship |-> {10}, complex |-> {}, wordCount |-> 2, hasCodeBlock |-> FALSE,
     questionCount |-> 0, hasNumberedList |-> FALSE, simple |-> FALSE]

FLAGSHIP_NAMES ==
    <<"flagship:\\bmock\\s+interview\\b",
      "flagship:\\bfull\\s+system\\s+design\\b",
      "flagship:\\bdesign\\s+.*\\s+from\\s+scratch",
      "flagship:\\barchitect(?:ure)?\\s+review\\b",
      "flagship:\\bdeep\\s+dive\\b",
      "flagship:\\bcomprehensive\\s+analysis\\b",
      "flagship:\\bwrite\\s+a\\s+(?:full|complete",
      "flagship:\\bexplain\\s+.*\\s+in\\s+depth\\b",
      "flagship:\\bpaper\\s+review\\b",
      "flagship:\\bRFC\\b">>

COMPLEX_NAMES ==
    <<"complex:\\bsystem\\s+design\\b",
      "complex:\\bcode\\s+review\\b",
      "complex:\\brefactor\\b",
      "complex:\\bdebug\\b",
      "complex:\\bimplement\\b",
      "complex:\\boptimize\\b",
      "complex:\\btrade-?offs?\\b",
      "complex:\\bcompare\\s+(?:and\\s+)?contras",
      "complex:\\bpros?\\s+(?:and\\s+)?cons?\\b",
      "complex:\\bstep\\s+by\\s+step\\b",
      "complex:\\bexplain\\s+(?:how|why|when)\\b",
      "complex:\\bwhat\\s+(?:would|should)\\s+ha",
      "complex:[fence][\\s\\S]{50,}[fence]",
      "complex:\\b(?:transformer|attention|bac",
      "complex:\\b(?:kubernetes|docker|microse">>

Messages ==
    {MsgEmpty, MsgBlank, MsgHi, MsgDigits, MsgSlashModel, MsgUseOpusFlagship,
     MsgDebugIt, MsgRfcQuestion, MsgWhatIsSgd, MsgWeekend, MsgSummarize,
     MsgAttention, MsgMockInterview, MsgDeepDive, MsgWhatIsDocker,
     MsgQuestionsList, MsgDebugCode, MsgSixtyWords, MsgLong, MsgRefactor,
     MsgYesUseClaude, MsgUseOpus, MsgConvertRefactor, MsgManyComplex, MsgRfc}

Signal(name, weight, matched) == [name |-> name, weight |-> weight, matched |-> matched]

\* weight and scores in hundredths, confidence in thousandths

\* the signals of the flagship loop: one per pattern, matched or not
flagshipSignalsMatchedOnly(message) ==
    LET all == [i \in 1..Len(FLAGSHIP_NAMES) |->
                   Signal(FLAGSHIP_NAMES[i], 40, i \in message.flagship)]
    IN SelectSeq(all, LAMBDA sig : sig.matched)

flagshipSignals(message) ==
    [i \in 1..Len(FLAGSHIP_NAMES) |->
        Signal(FLAGSHIP_NAMES[i], 40, i \in message.flagship)]

\* Math.min(0.95, 0.6 + flagshipScore)
flagshipConfidenceUncapped(flagshipScore) == 10 * (60 + flagshipScore)

flagshipConfidence(flagshipScore) == Min(950, 10 * (60 + flagshipScore))

\* Math.min(0.9, 0.5 + complexScore * 0.4)
complexConfidence(complexScore) == Min(900, 500 + complexScore * 4)

\* stages 3 to 6 of classifyIntent: the flagship loop and everything after it
classifyScored(message) ==
    LET flagshipScore == 40 * Cardinality(message.flagship)
    IN
    IF flagshipScore >= 40
    THEN [intent |-> "flagship", confidence |-> flagshipConfidence(flagshipScore),
          reason |-> "flagship keyword match", signals |-> flagshipSignals(message)]
    ELSE
    LET complexSignals ==
            [i \in 1..Len(COMPLEX_NAMES) |->
                Signal(COMPLEX_NAMES[i], 25, i \in message.complex)]
        wordCount == message.wordCount
        hasMultipleQuestions == message.questionCount >= 2
        lengthSignal ==
            IF wordCount > 100 THEN <<Signal("long_message", 30, TRUE)>>
            ELSE IF wordCount > 50 THEN <<Signal("medium_message", 15, TRUE)>>
            ELSE <<>>
        codeSignal ==
            IF message.hasCodeBlock THEN <<Signal("code_block", 30, TRUE)>> ELSE <<>>
        questionSignal ==
            IF hasMultipleQuestions THEN <<Signal("multiple_questions", 20, TRUE)>> ELSE <<>>
        listSignal ==
            IF message.hasNumberedList THEN <<Signal("numbered_list", 15, TRUE)>> ELSE <<>>
        complexScore ==
            25 * Cardinality(message.complex)
            + (IF wordCount > 100 THEN 30 ELSE IF wordCount > 50 THEN 15 ELSE 0)
            + (IF message.hasCodeBlock THEN 30 ELSE 0)
            + (IF hasMultipleQuestions THEN 20 ELSE 0)
            + (IF message.hasNumberedList THEN 15 ELSE 0)
        signals == flagshipSignals(message) \o complexSignals \o lengthSignal \o codeSignal
                       \o questionSignal \o listSignal
    IN
    IF complexScore >= 50
    THEN [intent |-> "complex", confidence |-> complexConfidence(complexScore),
          reason |-> "complex signal accumulation", signals |-> signals]
    ELSE IF message.simple
    THEN [intent |-> "simple", confidence |-> 800, reason |-> "simple pattern match",
          signals |-> Append(signals, Signal("simple_pattern", 70, TRUE))]
    ELSE IF wordCount <= 15 /\ complexScore < 25
    THEN [intent |-> "simple", confidence |-> 700,
          reason |-> "short message without complexity",
          signals |-> Append(signals, Signal("short_no_complexity", 60, TRUE))]
    ELSE [intent |-> "standard", confidence |-> 600,
          reason |-> "no strong signal - default to standard", signals |-> signals]

\* classifyIntent with the very-short rule tried before the explicit patterns
classifyIntentShortFirst(message) ==
    IF message.trimmedLength = 0
    THEN [intent |-> "trivial", confidence |-> 1000, reason |-> "empty message",
          signals |-> <<>>]
    ELSE IF message.trimmedLength < 10 /\ ~message.hasQuestion
    THEN [intent |-> "trivial", confidence |-> 800, reason |-> "very short non-question",
          signals |-> <<Signal("very_short", 80, TRUE)>>]
    ELSE IF message.explicit
    THEN [intent |-> "explicit", confidence |-> 1000, reason |-> "explicit model request",
          signals |-> <<Signal("explicit_model_request", 100, TRUE)>>]
    ELSE IF message.trivial
    THEN [intent |-> "trivial", confidence |-> 950, reason |-> "trivial pattern match",
          signals |-> <<Signal("trivial_pattern", 100, TRUE)>>]
    ELSE classifyScored(message)

classifyIntent(message) ==
    IF message.trimmedLength = 0
    THEN [intent |-> "trivial", confidence |-> 1000, reason |-> "empty message",
          signals |-> <<>>]
    ELSE IF message.explicit
    THEN [intent |-> "explicit", confidence |-> 1000, reason |-> "explicit model request",
          signals |-> <<Signal("explicit_model_request", 100, TRUE)>>]
    ELSE IF message.trivial
    THEN [intent |-> "trivial", confidence |-> 950, reason |-> "trivial pattern match",
          signals |-> <<Signal("trivial_pattern", 100, TRUE)>>]
    ELSE IF message.trimmedLength < 10 /\ ~message.hasQuestion
    THEN [intent |-> "trivial", confidence |-> 800, reason |-> "very short non-question",
          signals |-> <<Signal("very_short", 80, TRUE)>>]
    ELSE classifyScored(message)

\* ------------------------------------------------------------------------
\* Prompt adapter (prompt-adapter.ts)
\* ------------------------------------------------------------------------

\* A system prompt is a sequence of tokens. NL is the newline, HDR the
\* markdown header marker with its blank ("## "), "Tools" a header text of
\* the strip list, "Role" a header text of the core topics, "text" a
\* paragraph of body text without a newline, BP1_HEAD and BP1_TAIL the two
\* sentences of the first boilerplate phrase BP1 (a prompt can hold either
\* without the other), BP2 the second boilerplate phrase (the third has the
\* shape of the second).
NL == "\n"
HDR == "## "
HDR_TRIMMED == "##"
BP1_HEAD == "Don't ask permission. "
BP1_TAIL == "Just do it."
BP1 == <<BP1_HEAD, BP1_TAIL>>
BP2 == "You wake up fresh each session."

PromptTokens == {NL, HDR, "Tools", "Role", "text", BP1_HEAD, BP1_TAIL, BP2}

\* number of characters of a token; "text" stands for a long paragraph
TokenLen(t) ==
    CASE t = NL -> 1
      [] t = HDR -> 3
      [] t = HDR_TRIMMED -> 2
      [] t = "Tools" -> 5
      [] t = "Role" -> 4
      [] t = "text" -> 1601
      [] t = BP1_HEAD -> 22
      [] t = BP1_TAIL -> 11
      [] t = BP2 -> 31
      [] OTHER -> 150

RECURSIVE StrLen(_)
StrLen(s) == IF s = <<>> THEN 0 ELSE TokenLen(Head(s)) + StrLen(Tail(s))

\* index of the first occurrence of token t in s, 0 when there is none
FirstIndex(s, t) ==
    IF \E i \in 1..Len(s) : s[i] = t
    THEN CHOOSE i \in 1..Len(s) : s[i] = t /\ \A j \in 1..(i - 1) : s[j] # t
    ELSE 0

RECURSIVE SplitLines(_)
\* s.split("\n")
SplitLines(s) ==
    LET nl == FirstIndex(s, NL) IN
    IF nl = 0 THEN <<s>>
    ELSE <<SubSeq(s, 1, nl - 1)>> \o SplitLines(SubSeq(s, nl + 1, Len(s)))

RECURSIVE JoinLines(_)
\* lines.join("\n")
JoinLines(lines) ==
    IF lines = <<>> THEN <<>>
    ELSE IF Len(lines) = 1 THEN lines[1]
    ELSE lines[1] \o <<NL>> \o JoinLines(Tail(lines))

RECURSIVE TrimEnd(_)
\* s.trimEnd(): trailing newlines go, and the blank that ends a trailing HDR
TrimEnd(s) ==
    IF s = <<>> THEN <<>>
    ELSE IF s[Len(s)] = NL THEN TrimEnd(SubSeq(s, 1, Len(s) - 1))
    ELSE IF s[Len(s)] = HDR THEN Append(SubSeq(s, 1, Len(s) - 1), HDR_TRIMMED)
    ELSE s

RECURSIVE TrimStart(_)
TrimStart(s) ==
    IF s = <<>> THEN <<>>
    ELSE IF Head(s) = NL THEN TrimStart(Tail(s))
    ELSE s

Trim(s) == TrimEnd(TrimStart(s))

\* header texts already normalized: lowercase, no trailing punctuation
STRIPPABLE_SECTION_HEADERS ==
    {<<"tools">>, <<"available tools">>, <<"tool usage">>, <<"memory">>,
     <<"workspace files">>, <<"every session">>, <<"heartbeats">>,
     <<"group chats">>, <<"react like a human">>,
     <<"heartbeats - be proactive">>, <<"know when to speak">>}

ToLowerCase(t) ==
    CASE t = "Tools" -> "tools"
      [] t = "Role" -> "role"
      [] t = BP1_HEAD -> "don't ask permission. "
      [] t = BP1_TAIL -> "just do it."
      [] t = BP2 -> "you wake up fresh each session."
      [] OTHER -> t

RECURSIVE StripLeadingEmoji(_)
\* .replace(/^[\p{Emoji}\p{Emoji_Presentation}\s]+/u, ""): "#" and the blank
\* are both in the class, so leading header markers go
StripLeadingEmoji(s) ==
    IF s = <<>> THEN <<>>
    ELSE IF Head(s) = HDR THEN StripLeadingEmoji(Tail(s))
    ELSE s

\* .replace(/[!?.]+$/, ""): the final "." of a boilerplate phrase goes
StripTrailingPunctuation(s) ==
    IF s = <<>> THEN <<>>
    ELSE LET last == s[Len(s)] IN
         IF last = ToLowerCase(BP1_TAIL)
         THEN Append(SubSeq(s, 1, Len(s) - 1), "just do it")
         ELSE IF last = ToLowerCase(BP2)
         THEN Append(SubSeq(s, 1, Len(s) - 1), "you wake up fresh each session")
         ELSE s

\* a normalization under which a header that holds a listed name is that name
NormalizeHeaderContains(text) ==
    IF \E i \in 1..Len(text) : text[i] = "Tools" THEN <<"tools">> ELSE <<>>

NormalizeHeader(text) ==
    TrimEnd(StripTrailingPunctuation(
        StripLeadingEmoji([i \in 1..Len(text) |-> ToLowerCase(text[i])])))

\* line.match(/^(#{1,3})\s+(.+)$/)
HeaderMatch(line) == Len(line) >= 2 /\ line[1] = HDR

RECURSIVE StripScan(_, _, _, _, _)
StripScan(lines, headers, i, skipping, result) ==
    IF i > Len(lines) THEN result
    ELSE LET line == lines[i] IN
         IF HeaderMatch(line) /\ NormalizeHeader(Tail(line)) \in headers
         THEN StripScan(lines, headers, i + 1, TRUE, result)
         ELSE LET nowSkipping == IF HeaderMatch(line) THEN FALSE ELSE skipping IN
              StripScan(lines, headers, i + 1, nowSkipping,
                        IF nowSkipping THEN result ELSE Append(result, line))

stripSectionsByHeader(prompt, headers) ==
    JoinLines(StripScan(SplitLines(prompt), headers, 1, FALSE, <<>>))

RECURSIVE StripPhraseNewline(_, _)
\* s.replace(/<phrase>\n?/g, "")
StripPhraseNewline(s, phrase) ==
    IF s = <<>> THEN <<>>
    ELSE IF Len(s) >= Len(phrase) /\ SubSeq(s, 1, Len(phrase)) = phrase
    THEN IF Len(s) > Len(phrase) /\ s[Len(phrase) + 1] = NL
         THEN StripPhraseNewline(SubSeq(s, Len(phrase) + 2, Len(s)), phrase)
         ELSE StripPhraseNewline(SubSeq(s, Len(phrase) + 1, Len(s)), phrase)
    ELSE <<Head(s)>> \o StripPhraseNewline(Tail(s), phrase)

RECURSIVE StripPhraseToEol(_, _)
\* s.replace(/<phrase>.*?\n/g, ""): matches only when a newline follows
StripPhraseToEol(s, phrase) ==
    IF s = <<>> THEN <<>>
    ELSE IF Head(s) = phrase /\ FirstIndex(s, NL) # 0
    THEN StripPhraseToEol(SubSeq(s, FirstIndex(s, NL) + 1, Len(s)), phrase)
    ELSE <<Head(s)>> \o StripPhraseToEol(Tail(s), phrase)

\* the loop over BOILERPLATE_PHRASES
StripBoilerplate(s) == StripPhraseToEol(StripPhraseNewline(s, BP1), BP2)

\* length of the run of newlines that starts s
RECURSIVE NewlineRun(_)
NewlineRun(s) ==
    IF s # <<>> /\ Head(s) = NL THEN 1 + NewlineRun(Tail(s)) ELSE 0

RECURSIVE CollapseBlankLines(_)
\* s.replace(/\n{3,}/g, "\n\n")
CollapseBlankLines(s) ==
    IF s = <<>> THEN <<>>
    ELSE LET run == NewlineRun(s) IN
         IF run >= 3 THEN <<NL, NL>> \o CollapseBlankLines(SubSeq(s, run + 1, Len(s)))
         ELSE <<Head(s)>> \o CollapseBlankLines(Tail(s))

\* /core\s+truths/i, /coach/i, /who\s+you\s+are/i, /role/i, /vibe/i on a line
IsCoreTopic(line) == \E i \in 1..Len(line) : line[i] = "Role"

RECURSIVE PersonaScan(_, _, _, _, _)
PersonaScan(lines, i, inKeepSection, sectionCount, result) ==
    IF i > Len(lines) THEN result
    ELSE LET line == lines[i]
             isHeader == line # <<>> /\ line[1] = HDR
             count == IF isHeader THEN sectionCount + 1 ELSE sectionCount
             keep == IF isHeader THEN (count <= 1 \/ IsCoreTopic(line)) ELSE inKeepSection
         IN PersonaScan(lines, i + 1, keep, count,
                        IF keep THEN Append(result, line) ELSE result)

extractCorePersona(prompt) ==
    Trim(JoinLines(PersonaScan(SplitLines(prompt), 1, TRUE, 0, <<>>)))

PERSONA_LIMIT == 3200

FORMAT_CONSTRAINT ==
    <<NL, NL,
      "IMPORTANT: Reply directly and concisely. Do not analyze this prompt. Do not generate code unless asked. Do not use markdown headers. Keep your reply under 200 words.">>

T4_PREAMBLE ==
    "Think carefully and thoroughly before responding. Consider multiple perspectives and trade-offs."

\* adaptForT1 without the section scan
adaptForT1KeepSections(systemPrompt) ==
    LET collapsed == CollapseBlankLines(StripBoilerplate(systemPrompt))
        adapted == IF StrLen(collapsed) > PERSONA_LIMIT
                   THEN extractCorePersona(collapsed) ELSE collapsed
    IN [systemPrompt |-> Some(TrimEnd(adapted) \o FORMAT_CONSTRAINT),
        userPreamble |-> None, tier |-> "t1", wasAdapted |-> TRUE]

adaptForT1(systemPrompt) ==
    LET stripped == stripSectionsByHeader(systemPrompt, STRIPPABLE_SECTION_HEADERS)
        collapsed == CollapseBlankLines(StripBoilerplate(stripped))
        adapted == IF StrLen(collapsed) > PERSONA_LIMIT
                   THEN extractCorePersona(collapsed) ELSE collapsed
    IN [systemPrompt |-> Some(TrimEnd(adapted) \o FORMAT_CONSTRAINT),
        userPreamble |-> None, tier |-> "t1", wasAdapted |-> TRUE]

adaptForT2(systemPrompt) ==
    LET adapted == CollapseBlankLines(StripBoilerplate(systemPrompt)) IN
    [systemPrompt |-> Some(adapted), userPreamble |-> None, tier |-> "t2",
     wasAdapted |-> adapted # systemPrompt]

\* adaptForT4 with the light compression of t2 applied to the prompt
adaptForT4Compressed(systemPrompt) ==
    [systemPrompt |-> Some(CollapseBlankLines(StripBoilerplate(systemPrompt))),
     userPreamble |-> Some(T4_PREAMBLE), tier |-> "t4", wasAdapted |-> TRUE]

adaptForT4(systemPrompt) ==
    [systemPrompt |-> Some(systemPrompt), userPreamble |-> Some(T4_PREAMBLE),
     tier |-> "t4", wasAdapted |-> TRUE]

adaptPromptForTierT1Null(systemPrompt, tier) ==
    IF tier = "t0" \/ tier = "t1"
    THEN [systemPrompt |-> None, userPreamble |-> None, tier |-> tier, wasAdapted |-> TRUE]
    ELSE IF tier = "t2" THEN adaptForT2(systemPrompt)
    ELSE IF tier = "t4" THEN adaptForT4(systemPrompt)
    ELSE [systemPrompt |-> Some(systemPrompt), userPreamble |-> None, tier |-> "t3",
          wasAdapted |-> FALSE]

adaptPromptForTier(systemPrompt, tier) ==
    IF tier = "t0"
    THEN [systemPrompt |-> None, userPreamble |-> None, tier |-> tier, wasAdapted |-> TRUE]
    ELSE IF tier = "t1" THEN adaptForT1(systemPrompt)
    ELSE IF tier = "t2" THEN adaptForT2(systemPrompt)
    ELSE IF tier = "t4" THEN adaptForT4(systemPrompt)
    ELSE [systemPrompt |-> Some(systemPrompt), userPreamble |-> None, tier |-> "t3",
          wasAdapted |-> FALSE]

\* ------------------------------------------------------------------------
\* Router (intelligent-router.ts)
\* ------------------------------------------------------------------------

\* decision.tier !== decision.originalTier ? ... of the event kind
eventKindIgnoringBypass(decision) ==
    IF decision.tier # decision.originalTier THEN "budget_downgrade" ELSE "route"

eventKind(decision) ==
    IF decision.bypassed THEN "override"
    ELSE IF decision.tier # decision.originalTier THEN "budget_downgrade"
    ELSE "route"

\* the event recordAnalytics builds (ts, endpoint, sessionId and channel are
\* passed through and left out); estimatedCostUsd in ten-thousandths of a USD
analyticsEvent(params, decision) ==
    [event |-> eventKind(decision),
     intent |-> decision.classification.intent,
     confidence |-> decision.classification.confidence,
     tier |-> decision.tier,
     originalTier |-> IF decision.tier # decision.originalTier
                      THEN Some(decision.originalTier) ELSE None,
     provider |-> decision.model.provider,
     model |-> decision.model.model,
     messageLength |-> params.message.length,
     estimatedCostUsd |-> IF costPer1kInput[decision.tier] > 0
                          THEN Some(costPer1kInput[decision.tier] * 5) ELSE None,
     classifierReason |-> decision.classification.reason,
     promptAdapted |-> decision.adaptedPrompt.wasAdapted]

\* the calls of analytics.record made by recordAnalytics
recordAnalytics(params, decision) ==
    IF params.analytics = None THEN <<>> ELSE <<analyticsEvent(params, decision)>>

\* the decision of the session-override bypass
sessionOverrideDecisionByIntent(params) ==
    LET classification == classifyIntent(params.message)
        tier == resolveMinTierForIntent(classification.intent)
    IN [model |-> resolveModelForTier(tier, params.routingConfig, params.cfg),
        tier |-> tier, originalTier |-> tier,
        classification |-> classification,
        adaptedPrompt |-> adaptPromptForTier(params.systemPrompt, tier),
        bypassed |-> TRUE, bypassReason |-> Some("session model override")]

sessionOverrideDecision(params) ==
    [model |-> params.sessionModelOverride[1],
     tier |-> "t3", originalTier |-> "t3",
     classification |-> classifyIntent(params.message),
     adaptedPrompt |-> adaptPromptForTier(params.systemPrompt, "t3"),
     bypassed |-> TRUE, bypassReason |-> Some("session model override")]

\* the decision of the explicit-request bypass
explicitDecisionNoReason(params, classification) ==
    [model |-> resolveModelForTier("t3", params.routingConfig, params.cfg),
     tier |-> "t3", originalTier |-> "t3",
     classification |-> classification,
     adaptedPrompt |-> adaptPromptForTier(params.systemPrompt, "t3"),
     bypassed |-> TRUE, bypassReason |-> None]

explicitDecisionMinTier(params, classification) ==
    LET tier == resolveMinTierForIntent(classification.intent) IN
    [model |-> resolveModelForTier(tier, params.routingConfig, params.cfg),
     tier |-> tier, originalTier |-> "t3",
     classification |-> classification,
     adaptedPrompt |-> adaptPromptForTier(params.systemPrompt, tier),
     bypassed |-> TRUE, bypassReason |-> Some("explicit model request in message")]

\* the explicit bypass with the bias shift and the budget clamp applied to t3
explicitDecisionBudgeted(params, classification) ==
    LET tier == applyBudgetConstraints(
                    applyBias("t3", IF params.routingConfig.bias = None THEN "balanced"
                                    ELSE params.routingConfig.bias[1]),
                    params.routingConfig)
    IN [model |-> resolveModelForTier(tier, params.routingConfig, params.cfg),
        tier |-> tier, originalTier |-> "t3",
        classification |-> classification,
        adaptedPrompt |-> adaptPromptForTier(params.systemPrompt, "t3"),
        bypassed |-> TRUE, bypassReason |-> Some("explicit model request in message")]

explicitDecision(params, classification) ==
    [model |-> resolveModelForTier("t3", params.routingConfig, params.cfg),
     tier |-> "t3", originalTier |-> "t3",
     classification |-> classification,
     adaptedPrompt |-> adaptPromptForTier(params.systemPrompt, "t3"),
     bypassed |-> TRUE, bypassReason |-> Some("explicit model request in message")]

\* routingConfig.bias ?? "balanced"
biasOrDefault(routingConfig) ==
    IF routingConfig.bias = None THEN "balanced" ELSE routingConfig.bias[1]

\* steps 3 and 4: the tier after the bias shift and the budget clamp
budgetTierBudgetFirst(minTier, routingConfig) ==
    applyBias(applyBudgetConstraints(minTier, routingConfig), biasOrDefault(routingConfig))

budgetTier(minTier, routingConfig) ==
    applyBudgetConstraints(applyBias(minTier, biasOrDefault(routingConfig)), routingConfig)

\* the decision of the normal flow
routedDecision(params, classification) ==
    LET minTier == resolveMinTierForIntent(classification.intent)
        tier == budgetTier(minTier, params.routingConfig)
    IN [model |-> resolveModelForTier(tier, params.routingConfig, params.cfg),
        tier |-> tier, originalTier |-> minTier,
        classification |-> classification,
        adaptedPrompt |-> adaptPromptForTier(params.systemPrompt, tier),
        bypassed |-> FALSE, bypassReason |-> None]

\* routeMessage without the recordAnalytics calls of its two bypass branches
routeMessageSilentBypass(params) ==
    LET classification == classifyIntent(params.message)
        decision ==
            IF params.sessionModelOverride # None THEN sessionOverrideDecision(params)
            ELSE IF classification.intent = "explicit"
                 THEN explicitDecision(params, classification)
                 ELSE routedDecision(params, classification)
    IN [decision |-> decision,
        recorded |-> IF decision.bypassed THEN <<>> ELSE recordAnalytics(params, decision)]

\* routeMessage with the normal flow taken only when a logger is supplied, the
\* explicit bypass otherwise
routeMessageByLogger(params) ==
    LET classification == classifyIntent(params.message)
        decision ==
            IF params.sessionModelOverride # None THEN sessionOverrideDecision(params)
            ELSE IF classification.intent = "explicit" \/ params.analytics = None
                 THEN explicitDecision(params, classification)
                 ELSE routedDecision(params, classification)
    IN [decision |-> decision, recorded |-> recordAnalytics(params, decision)]

routeMessage(params) ==
    LET classification == classifyIntent(params.message)
        decision ==
            IF params.sessionModelOverride # None THEN sessionOverrideDecision(params)
            ELSE IF classification.intent = "explicit"
                 THEN explicitDecision(params, classification)
                 ELSE routedDecision(params, classification)
    IN [decision |-> decision, recorded |-> recordAnalytics(params, decision)]

\* ------------------------------------------------------------------------
\* Analytics writer (routing-analytics.ts)
\* ------------------------------------------------------------------------

\* path.join(resolveStateDir(env), "logs", "routing-analytics.jsonl")
DEFAULT_ANALYTICS_PATH == "state/logs/routing-analytics.jsonl"

Paths == {DEFAULT_ANALYTICS_PATH, "custom/analytics.jsonl"}

\* the states of one link of a writer's promise chain: its appendFile call has
\* not started, is in flight, has resolved, has rejected
Settled == {"done", "failed"}

\* getWriter: the writer of a path is created on first use, with the mkdir of
\* its directory started (ready pending) and an empty chain (Promise.resolve())
getWriterFresh(ws, filePath) ==
    [ws EXCEPT ![filePath] = Some([filePath |-> filePath, ready |-> "pending",
                                   chain |-> <<>>])]

getWriter(ws, filePath) ==
    IF ws[filePath] # None THEN ws
    ELSE [ws EXCEPT ![filePath] = Some([filePath |-> filePath, ready |-> "pending",
                                        chain |-> <<>>])]

\* writer.write: one more link at the end of the chain
write(w, line) ==
    [w EXCEPT !.chain = Append(@, [line |-> line, st |-> "queued"])]

\* JSON.stringify(event): throws on a value it cannot serialize
JSONstringify(event) ==
    IF event.cyclic THEN None ELSE Some(<<event.id>>)

\* record of a logger: serialize, write the line; every exception is caught
record(ws, logger, event) ==
    LET line == JSONstringify(event) IN
    IF line = None THEN [writers |-> ws, thrown |-> FALSE]
    ELSE [writers |-> [ws EXCEPT ![logger.filePath] = Some(write(@[1], line[1] \o <<NL>>))],
          thrown |-> FALSE]

createRoutingAnalyticsLogger(ws, params) ==
    IF ~params.enabled THEN [logger |-> None, writers |-> ws]
    ELSE LET filePath == IF params.analyticsPath # None THEN params.analyticsPath[1]
                         ELSE DEFAULT_ANALYTICS_PATH
         IN [logger |-> Some([enabled |-> TRUE, filePath |-> filePath]),
             writers |-> getWriter(ws, filePath)]

\* fs.mkdir(dir, {recursive: true}).catch(() => undefined): ready resolves
\* whether or not the directory could be made
readyAfterMkdirUncaught(ok) == IF ok THEN "resolved" ELSE "rejected"

readyAfterMkdir(ok) == "resolved"

\* queue.then(() => ready).then(() => fs.appendFile(...)).catch(...): the
\* appendFile of link k is called once the chain before it has settled (every
\* earlier link resolved or rejected-and-caught) and ready has resolved
canStartUnchained(w, k) ==
    /\ w.ready = "resolved"
    /\ w.chain[k].st = "queued"

canStartAfterSuccess(w, k) ==
    /\ w.ready = "resolved"
    /\ w.chain[k].st = "queued"
    /\ \A j \in 1..(k - 1) : w.chain[j].st = "done"

canStart(w, k) ==
    /\ w.ready = "resolved"
    /\ w.chain[k].st = "queued"
    /\ \A j \in 1..(k - 1) : w.chain[j].st \in Settled

\* ------------------------------------------------------------------------
\* Inputs
\* ------------------------------------------------------------------------

Opt(S) == {None} \cup {Some(v) : v \in S}

Usd == 0..MaxUsd

CurrentSpends == [dailyUsd : Opt(Usd), monthlyUsd : Opt(Usd)]

Budgets ==
    [preferFree : Opt(BOOLEAN), dailyCapUsd : Opt(Usd), monthlyCapUsd : Opt(Usd),
     currentSpend : Opt(CurrentSpends)]

NoTiers == [t \in TierIds |-> None]

\* baseRoutingConfig.tiers of intelligent-router.test.ts
BaseTiers ==
    [t0 |-> None,
     t1 |-> Some(<<"ollama", "/", "qwen2.5:7b">>),
     t2 |-> Some(<<"anthropic", "/", "claude-sonnet-4-5">>),
     t3 |-> Some(<<"anthropic", "/", "claude-sonnet-4-5">>),
     t4 |-> Some(<<"anthropic", "/", "claude-opus-4-5">>)]

\* a T0 override without provider, an identifier with a "/", an empty and a
\* malformed override string, and a T3 override that is not the default
OddTiers ==
    [t0 |-> Some(<<"gpt-4o">>),
     t1 |-> Some(<<"openrouter", "/", "meta", "/", "llama">>),
     t2 |-> Some(<<>>),
     t3 |-> Some(<<"openai", "/", "gpt-4o">>),
     t4 |-> Some(<<"/", "claude-opus-4-5">>)]

\* (tiers, cfg global default model, system prompt) of the routed calls
Environments ==
    {[tiers |-> NoTiers,
      cfg |-> [model |-> [kind |-> "undefined", value |-> None]],
      systemPrompt |-> <<>>],
     [tiers |-> BaseTiers,
      cfg |-> [model |-> [kind |-> "object",
                          value |-> Some(<<"anthropic", "/", "claude-sonnet-4-5">>)]],
      systemPrompt |-> <<"text">>],
     [tiers |-> OddTiers,
      cfg |-> [model |-> [kind |-> "string", value |-> Some(<<"openai", "/", "gpt-4o">>)]],
      systemPrompt |-> <<HDR, "Role", NL, "text", NL, HDR, "Tools", NL>> \o BP1]}

RouteMessages ==
    {MsgEmpty, MsgHi, MsgSlashModel, MsgUseOpusFlagship, MsgWhatIsSgd,
     MsgSummarize, MsgAttention, MsgMockInterview}

SessionOverrides == Opt({Ref("anthropic", "claude-opus-4-5")})

\* analytics?: RoutingAnalyticsLogger | null
Loggers == Opt({[enabled |-> TRUE]})

RoutingConfigs(tiersSet) ==
    [bias : Opt(Biases), budget : Opt(Budgets), tiers : tiersSet]

\* ------------------------------------------------------------------------
\* Completion events (intelligent-router.ts) and the integration adapter
\* (resolve-model-intelligent.ts)
\* ------------------------------------------------------------------------

\* the event recordRoutingCompletion builds (ts and endpoint left out)
completionEvent(params) ==
    [event |-> "complete",
     intent |-> params.decision.classification.intent,
     confidence |-> params.decision.classification.confidence,
     tier |-> params.decision.tier,
     provider |-> params.decision.model.provider,
     model |-> params.decision.model.model,
     messageLength |-> 0,
     latencyMs |-> params.latencyMs,
     responseSize |-> params.responseSize,
     estimatedCostUsd |-> None,
     promptAdapted |-> params.decision.adaptedPrompt.wasAdapted]

\* recordRoutingCompletion with one record call for the model call and one
\* for the response
recordRoutingCompletionTwice(params) ==
    [decision |-> params.decision,
     recorded |-> IF params.analytics = None THEN <<>>
                  ELSE <<completionEvent(params), completionEvent(params)>>]

\* recordRoutingCompletion: the decision as the call leaves it and the calls
\* of analytics.record it makes
recordRoutingCompletion(params) ==
    [decision |-> params.decision,
     recorded |-> IF params.analytics = None THEN <<>> ELSE <<completionEvent(params)>>]

\* cfg.intelligentRouting ?? null
resolveRoutingConfig(cfg) == cfg.intelligentRouting

\* the singleton rebuilt from the configuration of every call
getOrCreateAnalyticsLoggerAlways(singleton, ws, routingConfig) ==
    createRoutingAnalyticsLogger(
        ws, [enabled |-> IF routingConfig.analytics = None THEN FALSE
                         ELSE routingConfig.analytics[1],
             analyticsPath |-> routingConfig.analyticsPath])

\* getOrCreateAnalyticsLogger: the logger it returns, which is the new value
\* of the singleton, and the writers map
getOrCreateAnalyticsLogger(singleton, ws, routingConfig) ==
    IF singleton # None THEN [logger |-> singleton, writers |-> ws]
    ELSE createRoutingAnalyticsLogger(
             ws, [enabled |-> IF routingConfig.analytics = None THEN FALSE
                              ELSE routingConfig.analytics[1],
                  analyticsPath |-> routingConfig.analyticsPath])

\* the parameters resolveModelIntelligent calls routeMessage with
routerParams(params, routingConfig, analytics) ==
    [message |-> params.message, systemPrompt |-> params.systemPrompt,
     cfg |-> params.cfg, routingConfig |-> routingConfig,
     sessionModelOverride |-> params.sessionModelOverride, analytics |-> analytics]

\* what resolveModelIntelligent returns and leaves behind when routing is
\* enabled, from what getOrCreateAnalyticsLogger and routeMessage returned
intelligentRoutingResult(got, out) ==
    [result |-> Some([decision |-> out.decision,
                      useAdaptedPrompt |-> out.decision.adaptedPrompt.wasAdapted,
                      analytics |-> got.logger]),
     routed |-> TRUE, analyticsLogger |-> got.logger,
     writers |-> got.writers, recorded |-> out.recorded]

\* the routeMessage call of resolveModelIntelligent, with the logger got
routeWith(params, routingConfig, got) ==
    intelligentRoutingResult(
        got, routeMessage(routerParams(params, routingConfig, got.logger)))

\* resolveModelIntelligent gated on the presence of the config section only
resolveModelIntelligentUngated(params, singleton, ws) ==
    LET rc == resolveRoutingConfig(params.cfg) IN
    IF rc = None
    THEN [result |-> None, routed |-> FALSE, analyticsLogger |-> singleton,
          writers |-> ws, recorded |-> <<>>]
    ELSE routeWith(params, rc[1], getOrCreateAnalyticsLogger(singleton, ws, rc[1]))

\* resolveModelIntelligent: its result (null or decision, useAdaptedPrompt and
\* logger), whether routeMessage was called, the singleton and the writers
\* map after the call, and the calls of analytics.record made
resolveModelIntelligent(params, singleton, ws) ==
    LET rc == resolveRoutingConfig(params.cfg) IN
    IF rc = None \/ rc[1].enabled # Some(TRUE)
    THEN [result |-> None, routed |-> FALSE, analyticsLogger |-> singleton,
          writers |-> ws, recorded |-> <<>>]
    ELSE routeWith(params, rc[1], getOrCreateAnalyticsLogger(singleton, ws, rc[1]))

\* ------------------------------------------------------------------------
\* Inputs of the adapter calls
\* ------------------------------------------------------------------------

\* cfg.intelligentRouting of the adapter calls: feature flag, analytics flag
\* and path in every combination, the tiers of the test configuration
SessionRoutingConfigs ==
    [enabled : Opt(BOOLEAN), analytics : Opt(BOOLEAN),
     analyticsPath : Opt({"custom/analytics.jsonl"}),
     bias : {None}, budget : {None}, tiers : {BaseTiers}]

SessionConfigs ==
    {[model |-> [kind |-> "undefined", value |-> None], intelligentRouting |-> rc] :
         rc \in Opt(SessionRoutingConfigs)}

SessionMessages == {MsgHi, MsgSummarize}

SessionPrompt == <<HDR, "Role", NL, "text", NL, HDR, "Tools", NL>> \o BP1

\* latencyMs and responseSize of the completion calls
Latencies == {120}

ResponseSizes == Opt({512})

\* ------------------------------------------------------------------------
\* State machine: one call at a time, of the router or of one of its stages
\* ------------------------------------------------------------------------

VARIABLES
    pc,        \* "idle" between calls, "returned" when a call has returned
    op,        \* the function called last
    args,      \* its arguments
    ret,       \* its return value
    recorded,  \* the events it passed to analytics.record, in call order
    writers,   \* the module's writers map: output path -> writer, if created
    dirs,      \* file system: whether the directory of a path exists
    files,     \* file system: the lines of the file at a path
    loggers,   \* the return values of createRoutingAnalyticsLogger, in call order
    recordCalls, \* history: the record calls made, in call order
    attempts,  \* history: per path, the lines fs.appendFile was called with
    thrown,    \* history: whether a record call let an exception escape
    analyticsLogger, \* the singleton of resolve-model-intelligent.ts
    remembered \* history: the inputs and the decision of one earlier routing

routerVars == <<pc, op, args, ret, recorded>>

writerVars == <<writers, dirs, files, loggers, recordCalls, attempts, thrown>>

adapterVars == <<analyticsLogger, remembered>>

vars == <<pc, op, args, ret, recorded, writers, dirs, files, loggers, recordCalls,
          attempts, thrown, analyticsLogger, remembered>>

Init ==
    /\ pc = "idle"
    /\ op = "none"
    /\ args = None
    /\ ret = None
    /\ recorded = <<>>
    /\ writers = [p \in Paths |-> None]
    /\ dirs = [p \in Paths |-> FALSE]
    /\ files = [p \in Paths |-> <<>>]
    /\ loggers = <<>>
    /\ recordCalls = <<>>
    /\ attempts = [p \in Paths |-> <<>>]
    /\ thrown = FALSE
    /\ analyticsLogger = None
    /\ remembered = None

Call(name, a, r, events) ==
    /\ pc' = "returned"
    /\ op' = name
    /\ args' = a
    /\ ret' = r
    /\ recorded' = events
    /\ UNCHANGED <<writerVars, adapterVars>>

RouteMessage ==
    /\ pc = "idle"
    /\ \E m \in RouteMessages, e \in Environments, bias \in Opt(Biases),
       budget \in Opt(Budgets), o \in SessionOverrides, a \in Loggers :
        LET params == [message |-> m, systemPrompt |-> e.systemPrompt, cfg |-> e.cfg,
                       routingConfig |-> [bias |-> bias, budget |-> budget,
                                          tiers |-> e.tiers],
                       sessionModelOverride |-> o, analytics |-> a]
            out == routeMessage(params)
        IN Call("routeMessage", params, out.decision, out.recorded)

ApplyBias ==
    /\ pc = "idle"
    /\ \E tier \in TierIds, bias \in Biases :
        Call("applyBias", [tier |-> tier, bias |-> bias], applyBias(tier, bias), <<>>)

ApplyBudgetConstraints ==
    /\ pc = "idle"
    /\ \E tier \in TierIds, budget \in Opt(Budgets) :
        LET rc == [bias |-> None, budget |-> budget, tiers |-> NoTiers] IN
        Call("applyBudgetConstraints", [tier |-> tier, routingConfig |-> rc],
             applyBudgetConstraints(tier, rc), <<>>)

ResolveModelForTier ==
    /\ pc = "idle"
    /\ \E tier \in TierIds, override \in Opt(RefStrings), global \in GlobalModels(RefStrings) :
        LET rc == [bias |-> None, budget |-> None,
                   tiers |-> [t \in TierIds |-> IF t = tier THEN override ELSE None]]
            cfg == [model |-> global]
        IN Call("resolveModelForTier", [tier |-> tier, routingConfig |-> rc, cfg |-> cfg],
                resolveModelForTier(tier, rc, cfg), <<>>)

ClampTier ==
    /\ pc = "idle"
    /\ \E tier \in TierIds, maxAllowed \in TierIds :
        Call("clampTier", [tier |-> tier, maxAllowed |-> maxAllowed],
             clampTier(tier, maxAllowed), <<>>)

ResolveMinTierForIntent ==
    /\ pc = "idle"
    /\ \E intent \in Intents :
        Call("resolveMinTierForIntent", [intent |-> intent],
             resolveMinTierForIntent(intent), <<>>)

ClassifyIntent ==
    /\ pc = "idle"
    /\ \E message \in Messages :
        Call("classifyIntent", [message |-> message], classifyIntent(message), <<>>)

StripSectionsByHeader ==
    /\ pc = "idle"
    /\ \E prompt \in SeqsUpTo(PromptTokens, MaxPromptLen) :
        Call("stripSectionsByHeader", [prompt |-> prompt],
             stripSectionsByHeader(prompt, STRIPPABLE_SECTION_HEADERS), <<>>)

AdaptPromptForTier ==
    /\ pc = "idle"
    /\ \E prompt \in SeqsUpTo(PromptTokens, MaxPromptLen), tier \in TierIds :
        Call("adaptPromptForTier", [systemPrompt |-> prompt, tier |-> tier],
             adaptPromptForTier(prompt, tier), <<>>)

\* the caller takes the result; the next call starts from a clean slate
Return ==
    /\ pc = "returned"
    /\ pc' = "idle"
    /\ op' = "none"
    /\ args' = None
    /\ ret' = None
    /\ recorded' = <<>>
    /\ UNCHANGED <<writerVars, adapterVars>>

Next ==
    \/ RouteMessage
    \/ ApplyBias
    \/ ApplyBudgetConstraints
    \/ ResolveModelForTier
    \/ ClampTier
    \/ ResolveMinTierForIntent
    \/ ClassifyIntent
    \/ StripSectionsByHeader
    \/ AdaptPromptForTier
    \/ Return

Spec == Init /\ [][Next]_vars

\* ------------------------------------------------------------------------
\* State machine of the analytics writers: logger creation, record calls and
\* the completions of the file-system operations they start, interleaved
\* ------------------------------------------------------------------------

CreateRoutingAnalyticsLogger ==
    /\ Len(loggers) < MaxLoggers
    /\ \E enabled \in BOOLEAN, analyticsPath \in Opt(Paths) :
        LET out == createRoutingAnalyticsLogger(
                       writers, [enabled |-> enabled, analyticsPath |-> analyticsPath])
        IN /\ writers' = out.writers
           /\ loggers' = Append(loggers, out.logger)
    /\ UNCHANGED <<routerVars, adapterVars, dirs, files, recordCalls, attempts, thrown>>

Record ==
    /\ Len(recordCalls) < MaxRecords
    /\ \E i \in 1..Len(loggers), cyclic \in BOOLEAN :
        /\ loggers[i] # None
        /\ LET event == [id |-> Len(recordCalls) + 1, cyclic |-> cyclic]
               out == record(writers, loggers[i][1], event)
           IN /\ writers' = out.writers
              /\ thrown' = (thrown \/ out.thrown)
              /\ recordCalls' = Append(recordCalls,
                                       [logger |-> i, filePath |-> loggers[i][1].filePath,
                                        event |-> event])
    /\ UNCHANGED <<routerVars, adapterVars, dirs, files, loggers, attempts>>

\* the mkdir a writer started settles: it made the directory, or it failed
MkdirSettles ==
    \E p \in Paths, ok \in BOOLEAN :
        /\ writers[p] # None
        /\ writers[p][1].ready = "pending"
        /\ writers' = [writers EXCEPT ![p] = Some([@[1] EXCEPT !.ready = readyAfterMkdir(ok)])]
        /\ dirs' = [dirs EXCEPT ![p] = @ \/ ok]
        /\ UNCHANGED <<routerVars, adapterVars, files, loggers, recordCalls, attempts, thrown>>

\* the chain of a writer reaches a link: fs.appendFile is called with its line
StartAppendAt(p) ==
    /\ writers[p] # None
    /\ \E k \in 1..Len(writers[p][1].chain) :
        /\ canStart(writers[p][1], k)
        /\ writers' = [writers EXCEPT
                           ![p] = Some([@[1] EXCEPT !.chain[k].st = "appending"])]
        /\ attempts' = [attempts EXCEPT ![p] = Append(@, writers[p][1].chain[k].line)]
    /\ UNCHANGED <<routerVars, adapterVars, dirs, files, loggers, recordCalls, thrown>>

StartAppend == \E p \in Paths : StartAppendAt(p)

\* an appendFile in flight settles: the line is at the end of the file, or the
\* call failed (always so when the directory is missing) and left the file alone
AppendSettles ==
    \E p \in Paths, ok \in BOOLEAN :
        /\ writers[p] # None
        /\ ok => dirs[p]
        /\ \E k \in 1..Len(writers[p][1].chain) :
            /\ writers[p][1].chain[k].st = "appending"
            /\ writers' = [writers EXCEPT
                   ![p] = Some([@[1] EXCEPT !.chain[k].st = IF ok THEN "done" ELSE "failed"])]
            /\ files' = [files EXCEPT
                   ![p] = IF ok THEN Append(@, writers[p][1].chain[k].line) ELSE @]
        /\ UNCHANGED <<routerVars, adapterVars, dirs, loggers, recordCalls, attempts, thrown>>

WriterNext ==
    \/ CreateRoutingAnalyticsLogger
    \/ Record
    \/ MkdirSettles
    \/ StartAppend
    \/ AppendSettles

WriterSpec == Init /\ [][WriterNext]_vars

\* the same under fair scheduling: the event loop runs every continuation that
\* is ready, and every file-system operation in flight settles
WriterFairSpec ==
    /\ Init /\ [][WriterNext]_vars
    /\ WF_vars(MkdirSettles)
    /\ WF_vars(StartAppend)
    /\ WF_vars(AppendSettles)

\* ------------------------------------------------------------------------
\* State machine of one process using the adapter: resolveModelIntelligent
\* calls, the completion call that may follow each, and the completions of
\* the file-system operations of the singleton's writer, interleaved
\* ------------------------------------------------------------------------

\* the five inputs of the routeMessage call resolveModelIntelligent makes
RouteInputs(params) ==
    [message |-> params.message, systemPrompt |-> params.systemPrompt,
     cfg |-> params.cfg, routingConfig |-> params.cfg.intelligentRouting[1],
     sessionModelOverride |-> params.sessionModelOverride]

\* n record calls made through a logger, one after the other: the writers map
\* and the history of record calls after them
RECURSIVE recordEach(_, _, _, _)
recordEach(ws, calls, logger, n) ==
    IF n = 0 THEN [writers |-> ws, recordCalls |-> calls]
    ELSE LET event == [id |-> Len(calls) + 1, cyclic |-> FALSE] IN
         recordEach(record(ws, logger[1], event).writers,
                    Append(calls, [logger |-> 0, filePath |-> logger[1].filePath,
                                   event |-> event]),
                    logger, n - 1)

\* the remembered routing, with one more call made after it
Seen(name) ==
    IF remembered = None THEN None
    ELSE Some([remembered[1] EXCEPT !.between = @ \cup {name}])

ResolveModelIntelligent ==
    /\ pc = "idle"
    /\ \E cfg \in SessionConfigs, message \in SessionMessages :
        LET params == [cfg |-> cfg, message |-> message, systemPrompt |-> SessionPrompt,
                       sessionModelOverride |-> None]
        IN \E out \in {resolveModelIntelligent(params, analyticsLogger, writers)} :
           \E after \in {recordEach(out.writers, recordCalls, out.analyticsLogger,
                                    Len(out.recorded))} :
           /\ Len(recordCalls) + Len(out.recorded) <= MaxRecords
           /\ pc' = "returned"
           /\ op' = "resolveModelIntelligent"
           /\ args' = params
           /\ ret' = [result |-> out.result, routed |-> out.routed]
           /\ recorded' = out.recorded
           /\ analyticsLogger' = out.analyticsLogger
           /\ writers' = after.writers
           /\ recordCalls' = after.recordCalls
           /\ remembered' \in
                  {Seen("resolveModelIntelligent")} \cup
                  (IF out.result # None /\ remembered = None
                   THEN {Some([inputs |-> RouteInputs(params),
                               decision |-> out.result[1].decision,
                               analytics |-> out.result[1].analytics,
                               between |-> {}])}
                   ELSE {})
    /\ UNCHANGED <<dirs, files, loggers, attempts, thrown>>

\* the caller reports the model call made with the decision it was given,
\* passing the logger of the result or none
RecordRoutingCompletion ==
    /\ pc = "returned"
    /\ op = "resolveModelIntelligent"
    /\ ret.result # None
    /\ \E analytics \in {None, ret.result[1].analytics}, latencyMs \in Latencies,
          responseSize \in ResponseSizes :
        LET params == [analytics |-> analytics, decision |-> ret.result[1].decision,
                       latencyMs |-> latencyMs, responseSize |-> responseSize,
                       cfg |-> args.cfg]
        IN \E out \in {recordRoutingCompletion(params)} :
           \E after \in {recordEach(writers, recordCalls, analytics, Len(out.recorded))} :
           /\ Len(recordCalls) + Len(out.recorded) <= MaxRecords
           /\ pc' = "returned"
           /\ op' = "recordRoutingCompletion"
           /\ args' = params
           /\ ret' = [decision |-> out.decision]
           /\ recorded' = out.recorded
           /\ writers' = after.writers
           /\ recordCalls' = after.recordCalls
           /\ remembered' = Seen("recordRoutingCompletion")
    /\ UNCHANGED <<dirs, files, loggers, attempts, thrown, analyticsLogger>>

SessionNext ==
    \/ ResolveModelIntelligent
    \/ RecordRoutingCompletion
    \/ Return
    \/ MkdirSettles
    \/ StartAppend
    \/ AppendSettles

SessionSpec == Init /\ [][SessionNext]_vars

\* ------------------------------------------------------------------------
\* Properties
\* ------------------------------------------------------------------------

Returned(name) == pc = "returned" /\ op = name

\* a routeMessage call that returned through the normal flow
Routed == Returned("routeMessage") /\ ~ret.bypassed

\* the daily (monthly) rule: the cap is set, the spend is known and has
\* reached the cap
CapReached(b, cap, spend) ==
    /\ b[cap] # None
    /\ b.currentSpend # None
    /\ b.currentSpend[1][spend] # None
    /\ b.currentSpend[1][spend][1] >= b[cap][1]

\* a budget rule triggers
RuleTriggers(budget) ==
    /\ budget # None
    /\ \/ budget[1].preferFree = Some(TRUE)
       \/ CapReached(budget[1], "dailyCapUsd", "dailyUsd")
       \/ CapReached(budget[1], "monthlyCapUsd", "monthlyUsd")

\* the daily (monthly) check is off: no cap, no known spend, or spend
\* strictly below the cap
CapCheckOff(b, cap, spend) ==
    \/ b[cap] = None
    \/ b.currentSpend = None
    \/ b.currentSpend[1][spend] = None
    \/ b.currentSpend[1][spend][1] < b[cap][1]

NoRuleTriggers(budget) ==
    \/ budget = None
    \/ /\ budget[1].preferFree # Some(TRUE)
       /\ CapCheckOff(budget[1], "dailyCapUsd", "dailyUsd")
       /\ CapCheckOff(budget[1], "monthlyCapUsd", "monthlyUsd")

MinTierIndexOf(intent) ==
    CASE intent = "trivial" -> 0
      [] intent = "simple" -> 1
      [] intent = "standard" -> 2
      [] intent = "complex" -> 3
      [] intent = "flagship" -> 4

\* one step down unless the index is <= 1, one step up unless it is >= 4
BiasedIndex(i, bias) ==
    CASE bias = "cost" -> IF i <= 1 THEN i ELSE i - 1
      [] bias = "quality" -> IF i >= 4 THEN i ELSE i + 1
      [] bias = "balanced" -> i

C3_ApplyBias ==
    Returned("applyBias") =>
        LET i == tierIndex(args.tier) IN
        /\ ret \in TierIds
        /\ args.bias = "balanced" => ret = args.tier
        /\ args.bias = "cost" => tierIndex(ret) = (IF i <= 1 THEN i ELSE i - 1)
        /\ args.bias = "quality" => tierIndex(ret) = (IF i >= 4 THEN i ELSE i + 1)
        /\ tierIndex(ret) - i \in {-1, 0, 1}

\* T1 under cost bias stays T1
C3_Witness ==
    Returned("applyBias") /\ args.tier = "t1" /\ args.bias = "cost" /\ ret = "t1"

\* C4: the budget stage returns its input tier whenever no rule triggers (no
\* budget, preferFree unset with spend below every cap, or a cap whose spend
\* is missing); a missing daily spend disables the daily check only: a
\* reached monthly cap with monthly spend present still clamps, and vice
\* versa.
C4_BudgetFailsOpen ==
    Returned("applyBudgetConstraints") =>
        LET budget == args.routingConfig.budget IN
        /\ NoRuleTriggers(budget) => ret = args.tier
        /\ (/\ budget # None
            /\ budget[1].preferFree # Some(TRUE)
            /\ SpendField(budget[1], "dailyUsd") = None
            /\ CapReached(budget[1], "monthlyCapUsd", "monthlyUsd"))
               => tierIndex(ret) = Min(tierIndex(args.tier), 1)
        /\ (/\ budget # None
            /\ budget[1].preferFree # Some(TRUE)
            /\ SpendField(budget[1], "monthlyUsd") = None
            /\ CapReached(budget[1], "dailyCapUsd", "dailyUsd"))
               => tierIndex(ret) = Min(tierIndex(args.tier), 1)

\* both caps configured, no currentSpend at all: T4 stays T4
C4_Witness ==
    /\ Returned("applyBudgetConstraints")
    /\ args.routingConfig.budget # None
    /\ args.routingConfig.budget[1].dailyCapUsd = Some(0)
    /\ args.routingConfig.budget[1].monthlyCapUsd = Some(0)
    /\ args.routingConfig.budget[1].currentSpend = None
    /\ args.tier = "t4"
    /\ ret = "t4"

\* C5: with a session model override, routeMessage returns a bypass whose
\* reason is "session model override", whose model is the override and whose
\* tier and originalTier are T3, for every message, bias and budget; the
\* classification is still that of the message.
C5_SessionOverrideBypass ==
    (Returned("routeMessage") /\ args.sessionModelOverride # None) =>
        /\ ret.bypassed
        /\ ret.bypassReason = Some("session model override")
        /\ ret.model = args.sessionModelOverride[1]
        /\ ret.tier = "t3"
        /\ ret.originalTier = "t3"
        /\ ret.classification = classifyIntent(args.message)
        /\ (args.message.text = "/model opus") => ret.classification.intent = "explicit"
        /\ (args.message.text = "hi") => ret.classification.intent = "trivial"

\* an explicit message under cost bias and preferFree, with an override
C5_Witness ==
    /\ Returned("routeMessage")
    /\ args.sessionModelOverride = Some(Ref("anthropic", "claude-opus-4-5"))
    /\ args.message.text = "/model opus"
    /\ args.routingConfig.bias = Some("cost")
    /\ args.routingConfig.budget # None
    /\ args.routingConfig.budget[1].preferFree = Some(TRUE)
    /\ ret.bypassReason = Some("session model override")
    /\ ret.classification.intent = "explicit"

\* the model of tier T3 under a configuration: the T3 override when it is a
\* non-empty string that parses, else the built-in T3 default
T3ModelOf(routingConfig) ==
    LET override == routingConfig.tiers["t3"]
        parsed == IF override # None /\ override[1] # <<>>
                  THEN parseModelRef(override[1], DEFAULT_PROVIDER) ELSE None
    IN IF parsed # None THEN parsed[1] ELSE Ref("anthropic", "claude-sonnet-4-5")

\* C6: without a session override, a message classified explicit returns a
\* bypass with reason "explicit model request in message", tier and
\* originalTier T3 and the model resolved for T3 from the configuration.
C6_ExplicitBypass ==
    (/\ Returned("routeMessage")
     /\ args.sessionModelOverride = None
     /\ classifyIntent(args.message).intent = "explicit") =>
        /\ ret.bypassed
        /\ ret.bypassReason = Some("explicit model request in message")
        /\ ret.tier = "t3"
        /\ ret.originalTier = "t3"
        /\ ret.model = T3ModelOf(args.routingConfig)

\* "/model opus" under a configuration whose T3 override is openai/gpt-4o
C6_Witness ==
    /\ Returned("routeMessage")
    /\ args.sessionModelOverride = None
    /\ args.message.text = "/model opus"
    /\ args.routingConfig.tiers["t3"] = Some(<<"openai", "/", "gpt-4o">>)
    /\ ret.bypassed
    /\ ret.model = [provider |-> <<"openai">>, model |-> <<"gpt-4o">>]

\* C7: a bypassed decision has tier = originalTier and a non-empty
\* bypassReason.
C7_BypassInvariant ==
    (Returned("routeMessage") /\ ret.bypassed) =>
        /\ ret.tier = ret.originalTier
        /\ ret.bypassReason # None
        /\ ret.bypassReason[1] # ""

\* a bypass taken because the message asks for a model
C7_Witness ==
    /\ Returned("routeMessage")
    /\ ret.bypassed
    /\ args.sessionModelOverride = None
    /\ args.message.text = "use opus for a full system design mock interview"

\* C8: adaptPromptForTier returns a null systemPrompt exactly for tier T0, for
\* every system prompt (the empty one included); so the adapted prompt of a
\* routing decision is null exactly when the decision's tier is T0.
C8_NullPromptIffT0 ==
    /\ Returned("adaptPromptForTier") => ((ret.systemPrompt = None) <=> (args.tier = "t0"))
    /\ Returned("routeMessage") => ((ret.adaptedPrompt.systemPrompt = None) <=> (ret.tier = "t0"))

\* the empty prompt adapted for T1 is a string
C8_Witness ==
    /\ Returned("adaptPromptForTier")
    /\ args.systemPrompt = <<>>
    /\ args.tier = "t1"
    /\ ret.systemPrompt = Some(FORMAT_CONSTRAINT)

\* the candidates of the resolution, in the order of the claim
ModelCandidates(tier, routingConfig, cfg) ==
    LET override == routingConfig.tiers[tier]
        global == cfg.model
    IN <<IF override # None /\ override[1] # <<>>
         THEN parseModelRef(override[1], DEFAULT_PROVIDER) ELSE None,
         DEFAULT_TIER_MODELS[tier],
         IF global.kind \in {"string", "object"} /\ global.value # None
                /\ global.value[1] # <<>>
         THEN parseModelRef(global.value[1], DEFAULT_PROVIDER) ELSE None,
         Some([provider |-> <<"anthropic">>, model |-> <<"claude-sonnet-4-5">>])>>

FirstAvailable(candidates) ==
    candidates[CHOOSE i \in 1..Len(candidates) :
                   candidates[i] # None /\ \A j \in 1..(i - 1) : candidates[j] = None][1]

C11_DowngradeEventOnlyWhenLower ==
    (Returned("routeMessage") /\ Len(recorded) = 1) =>
        ((recorded[1].event = "budget_downgrade" \/ recorded[1].originalTier # None)
            => tierIndex(ret.tier) < tierIndex(ret.originalTier))

\* C12: a routeMessage call made with an analytics logger calls record exactly
\* once on each path (session override, explicit bypass, normal flow), with an
\* event built from the decision it returns; a call without a logger records
\* nothing.
C12_RecordExactlyOnce ==
    Returned("routeMessage") =>
        IF args.analytics = None
        THEN recorded = <<>>
        ELSE /\ Len(recorded) = 1
             /\ recorded[1].tier = ret.tier
             /\ recorded[1].intent = ret.classification.intent
             /\ recorded[1].provider = ret.model.provider
             /\ recorded[1].model = ret.model.model
             /\ recorded[1].promptAdapted = ret.adaptedPrompt.wasAdapted

\* an explicit-bypass call with a logger: one override event was recorded
C12_Witness ==
    /\ Returned("routeMessage")
    /\ args.analytics # None
    /\ args.sessionModelOverride = None
    /\ ret.bypassed
    /\ ret.classification.intent = "explicit"
    /\ Len(recorded) = 1
    /\ recorded[1].event = "override"

\* the chain of the writer of path p
ChainOf(p) == writers[p][1].chain

\* the lines of the links of a chain whose state is in states, in chain order
LinesIn(chain, states) ==
    LET sel == SelectSeq(chain, LAMBDA l : l.st \in states)
    IN [k \in 1..Len(sel) |-> sel[k].line]

\* the lines of the record calls made for path p that serialized, in call order
LinesRecorded(p) ==
    LET sel == SelectSeq(recordCalls, LAMBDA c : c.filePath = p /\ ~c.event.cyclic)
    IN [k \in 1..Len(sel) |-> <<sel[k].event.id, NL>>]

\* the writer of p is in order: its chain holds the recorded lines in call
\* order, a link has started only if every link before it has settled, at most
\* one appendFile is in flight, and the file holds the appended lines in order
WriterInOrder(p) ==
    /\ LinesIn(ChainOf(p), {"queued", "appending", "done", "failed"}) = LinesRecorded(p)
    /\ \A k \in 1..Len(ChainOf(p)) :
           ChainOf(p)[k].st # "queued" =>
               \A j \in 1..(k - 1) : ChainOf(p)[j].st \in Settled
    /\ Cardinality({k \in 1..Len(ChainOf(p)) : ChainOf(p)[k].st = "appending"}) <= 1
    /\ files[p] = LinesIn(ChainOf(p), {"done"})

\* a step leaves the file of p alone or adds one whole line at its end
FileGrowsByLine(p) ==
    \/ files'[p] = files[p]
    \/ /\ Len(files'[p]) = Len(files[p]) + 1
       /\ SubSeq(files'[p], 1, Len(files[p])) = files[p]
       /\ files'[p][Len(files'[p])] \in {<<id, NL>> : id \in 1..Len(recordCalls)}

\* C13: per writer, lines reach the file in the order of their record calls
\* under every interleaving of record calls and I/O completions: an append
\* starts only after the one before it has settled, at most one append is in
\* flight per path, and the file only grows by whole appended lines.
C13_WriterSerializesAppends ==
    /\ [](\A p \in Paths : writers[p] # None => WriterInOrder(p))
    /\ [][\A p \in Paths : FileGrowsByLine(p)]_vars

\* two lines are in the file in call order, a third append is in flight, a
\* record call having been made while an earlier append was unsettled
C13_Witness ==
    \E p \in Paths :
        /\ writers[p] # None
        /\ Len(ChainOf(p)) = 3
        /\ files[p] = <<<<1, NL>>, <<2, NL>>>>
        /\ ChainOf(p)[3].st = "appending"

\* no line occurs twice in a sequence of lines
NoRepeat(lines) ==
    \A i, j \in 1..Len(lines) : lines[i] = lines[j] => i = j

\* C14: a failed mkdir, a failed serialization and a failed append are
\* swallowed: no record call lets an exception escape, every line is handed to
\* appendFile at most once (a failed one is not retried), and once mkdir has
\* settled, however it ended, a queued line behind settled (even failed) ones
\* can be attempted as soon as no append is in flight.
C14_SinkFailuresSwallowed ==
    /\ ~thrown
    /\ \A p \in Paths : writers[p] # None =>
        /\ NoRepeat(attempts[p])
        /\ attempts[p] = LinesIn(ChainOf(p), {"appending", "done", "failed"})
        /\ (/\ writers[p][1].ready # "pending"
            /\ \E k \in 1..Len(ChainOf(p)) : ChainOf(p)[k].st = "queued"
            /\ \A k \in 1..Len(ChainOf(p)) : ChainOf(p)[k].st # "appending")
           => ENABLED StartAppendAt(p)

\* the directory could not be made, an event did not serialize, the first
\* append failed, and the append of the next line was attempted all the same
C14_Witness ==
    \E p \in Paths :
        /\ writers[p] # None
        /\ writers[p][1].ready # "pending"
        /\ ~dirs[p]
        /\ \E c \in 1..Len(recordCalls) :
               recordCalls[c].filePath = p /\ recordCalls[c].event.cyclic
        /\ Len(ChainOf(p)) = 2
        /\ ChainOf(p)[1].st = "failed"
        /\ ChainOf(p)[2].st = "failed"
        /\ Len(attempts[p]) = 2
        /\ files[p] = <<>>

\* the complex score of a message, in hundredths
ComplexScoreOf(m) ==
    25 * Cardinality(m.complex)
    + (IF m.wordCount > 100 THEN 30 ELSE IF m.wordCount > 50 THEN 15 ELSE 0)
    + (IF m.hasCodeBlock THEN 30 ELSE 0)
    + (IF m.questionCount >= 2 THEN 20 ELSE 0)
    + (IF m.hasNumberedList THEN 15 ELSE 0)

\* the conditions of the nine rules of the classifier, in their order
RuleHolds(m) ==
    <<m.trimmedLength = 0,
      m.explicit,
      m.trivial,
      m.trimmedLength < 10 /\ ~m.hasQuestion,
      m.flagship # {},
      ComplexScoreOf(m) >= 50,
      m.simple,
      m.wordCount <= 15 /\ ComplexScoreOf(m) < 25,
      TRUE>>

\* the first rule whose condition holds
DecidingRule(m) ==
    CHOOSE r \in 1..9 : RuleHolds(m)[r] /\ \A q \in 1..(r - 1) : ~RuleHolds(m)[q]

RuleIntent ==
    <<"trivial", "explicit", "trivial", "trivial", "flagship", "complex", "simple",
      "simple", "standard">>

\* the confidence (thousandths) of the rules that fix one; 0 where it is computed
RuleConfidence == <<1000, 1000, 950, 800, 0, 0, 800, 700, 600>>

C16_ConfidenceInRange ==
    Returned("classifyIntent") =>
        /\ ret.confidence >= 0
        /\ ret.confidence <= 1000
        /\ ret.intent = "flagship" => ret.confidence <= 950
        /\ ret.intent = "complex" => ret.confidence <= 900
        /\ ret.reason # ""

\* three flagship keywords: 0.6 + 1.2 is capped at 0.95
C16_Witness ==
    /\ Returned("classifyIntent")
    /\ Cardinality(args.message.flagship) = 3
    /\ ret.intent = "flagship"
    /\ ret.confidence = 950

\* the set of the elements of a sequence
Range(seq) == {seq[i] : i \in 1..Len(seq)}

\* the rule (1..9, as in RuleHolds) whose check pushes a signal of this name
SignalStage(name) ==
    IF name = "explicit_model_request" THEN 2
    ELSE IF name = "trivial_pattern" THEN 3
    ELSE IF name = "very_short" THEN 4
    ELSE IF name \in Range(FLAGSHIP_NAMES) THEN 5
    ELSE IF name = "simple_pattern" THEN 7
    ELSE IF name = "short_no_complexity" THEN 8
    ELSE 6

\* the signals of a list that belong to the check of rule r
SignalsOfStage(signals, r) == SelectSeq(signals, LAMBDA sig : SignalStage(sig.name) = r)

\* signals hold nothing of a rule after rule d, and are in the order of the rules
NoLaterStage(signals, d) ==
    /\ \A i \in 1..Len(signals) : SignalStage(signals[i].name) <= d
    /\ \A i, j \in 1..Len(signals) :
           i < j => SignalStage(signals[i].name) <= SignalStage(signals[j].name)

\* C17 as stated: the signals hold a signal for every check performed up to and
\* including the deciding one, in evaluation order, and none of a later stage.
C17_SignalForEveryCheck ==
    Returned("classifyIntent") =>
        LET d == DecidingRule(args.message) IN
        /\ \A r \in 1..d : SignalsOfStage(ret.signals, r) # <<>>
        /\ NoLaterStage(ret.signals, d)

\* the names of the heuristic signals of the complex stage that hold for m
HeuristicNames(m) ==
    (IF m.wordCount > 100 THEN <<"long_message">>
     ELSE IF m.wordCount > 50 THEN <<"medium_message">> ELSE <<>>)
    \o (IF m.hasCodeBlock THEN <<"code_block">> ELSE <<>>)
    \o (IF m.questionCount >= 2 THEN <<"multiple_questions">> ELSE <<>>)
    \o (IF m.hasNumberedList THEN <<"numbered_list">> ELSE <<>>)

\* C17, amended: the signals hold, in evaluation order, one matched signal of
\* the deciding rule if that is the explicit, trivial-pattern, very-short,
\* simple-pattern or short-without-complexity rule; one signal per flagship
\* pattern, matched or not, once the flagship stage is reached; one signal per
\* complex pattern, matched or not, and one per heuristic that holds, once the
\* complex stage is reached; and no signal of a stage after the deciding one.
\* The empty check, the single-signal checks that do not match and the default
\* leave no signal.
C17_SignalsOfReachedStages ==
    Returned("classifyIntent") =>
        LET m == args.message
            d == DecidingRule(m)
            flag == SignalsOfStage(ret.signals, 5)
            cplx == SignalsOfStage(ret.signals, 6)
        IN
        /\ NoLaterStage(ret.signals, d)
        /\ \A r \in {2, 3, 4, 7, 8} :
               SignalsOfStage(ret.signals, r) =
                   (IF r = d THEN <<ret.signals[Len(ret.signals)]>> ELSE <<>>)
        /\ \A i \in 1..Len(ret.signals) :
               SignalStage(ret.signals[i].name) \in {2, 3, 4, 7, 8} => ret.signals[i].matched
        /\ d < 5 => flag = <<>>
        /\ d >= 5 =>
               /\ Len(flag) = Len(FLAGSHIP_NAMES)
               /\ \A i \in 1..Len(flag) :
                      /\ flag[i].name = FLAGSHIP_NAMES[i]
                      /\ flag[i].matched <=> (i \in m.flagship)
        /\ d < 6 => cplx = <<>>
        /\ d >= 6 =>
               /\ Len(cplx) = Len(COMPLEX_NAMES) + Len(HeuristicNames(m))
               /\ \A i \in 1..Len(COMPLEX_NAMES) :
                      /\ cplx[i].name = COMPLEX_NAMES[i]
                      /\ cplx[i].matched <=> (i \in m.complex)
               /\ \A i \in 1..Len(HeuristicNames(m)) :
                      /\ cplx[Len(COMPLEX_NAMES) + i].name = HeuristicNames(m)[i]
                      /\ cplx[Len(COMPLEX_NAMES) + i].matched

\* a message that falls through to the default: the flagship and complex
\* signals, a heuristic signal, and none of the two simple checks that failed
C17_Witness ==
    /\ Returned("classifyIntent")
    /\ ret.intent = "standard"
    /\ args.message.wordCount > 50
    /\ Len(ret.signals) = Len(FLAGSHIP_NAMES) + Len(COMPLEX_NAMES) + 1
    /\ ret.signals[Len(ret.signals)].name = "medium_message"

\* the intents that are capability levels, from the least to the most capable
CapabilityOrder == <<"trivial", "simple", "standard", "complex", "flagship">>

\* the position of a capability level in CapabilityOrder
CapabilityIndex(intent) == CHOOSE i \in 1..Len(CapabilityOrder) : CapabilityOrder[i] = intent

\* C18: the minimum tier is the lookup trivial -> t0, simple -> t1,
\* standard -> t2, complex -> t3, flagship -> t4, explicit -> t4, monotone over
\* trivial < simple < standard < complex < flagship; routeMessage never uses
\* the explicit entry: an explicit intent returns through a bypass at t3.
C18_MinimumTierLookup ==
    /\ Returned("resolveMinTierForIntent") =>
        /\ ret = [trivial |-> "t0", simple |-> "t1", standard |-> "t2", complex |-> "t3",
                  flagship |-> "t4", explicit |-> "t4"][args.intent]
        /\ args.intent # "explicit" =>
               \A other \in Range(CapabilityOrder) :
                   CapabilityIndex(args.intent) <= CapabilityIndex(other) =>
                       tierIndex(ret) <= tierIndex(resolveMinTierForIntent(other))
    /\ (Returned("routeMessage") /\ ret.classification.intent = "explicit") =>
        /\ ret.bypassed
        /\ ret.tier = "t3"
        /\ ret.originalTier = "t3"

\* the lookup of the standard intent, between the simple and the complex one
C18_Witness ==
    /\ Returned("resolveMinTierForIntent")
    /\ args.intent = "standard"
    /\ ret = "t2"
    /\ tierIndex(resolveMinTierForIntent("simple")) < tierIndex(ret)
    /\ tierIndex(ret) < tierIndex(resolveMinTierForIntent("complex"))

\* C19: for all 25 pairs of tiers (t, m), clampTier(t, m) is at most m in the
\* order t0 < t1 < t2 < t3 < t4, is t whenever t <= m and m otherwise, and
\* clamping its result by m again changes nothing.
C19_ClampTier ==
    Returned("clampTier") =>
        LET t == args.tier
            m == args.maxAllowed
        IN /\ tierIndex(ret) <= tierIndex(m)
           /\ tierIndex(t) <= tierIndex(m) => ret = t
           /\ tierIndex(t) > tierIndex(m) => ret = m
           /\ tierIndex(ret) = Min(tierIndex(t), tierIndex(m))
           /\ clampTier(ret, m) = ret

\* t4 clamped by t1 is t1
C19_Witness ==
    /\ Returned("clampTier")
    /\ args.tier = "t4"
    /\ args.maxAllowed = "t1"
    /\ ret = "t1"

\* the text s holds the text part as a substring
Contains(s, part) ==
    \E i \in 1..(Len(s) - Len(part) + 1) : SubSeq(s, i, i + Len(part) - 1) = part

\* a call of adaptPromptForTier for tier t1 has returned
AdaptedForT1 == Returned("adaptPromptForTier") /\ args.tier = "t1"

\* a line that the section scan reads as the header of a section to strip
StrippableHeaderLine(line) ==
    HeaderMatch(line) /\ NormalizeHeader(Tail(line)) \in STRIPPABLE_SECTION_HEADERS

\* every occurrence of a sentence of BP1 in s is in a line made of BP1 alone
PhraseOnlyAsWholeLines(s) ==
    \A i \in 1..Len(SplitLines(s)) :
        LET line == SplitLines(s)[i] IN
        (Contains(line, <<BP1_HEAD>>) \/ Contains(line, <<BP1_TAIL>>)) => line = BP1

ListedHeaderLine(line) ==
    /\ Len(line) >= 2
    /\ line[Len(line)] = "Tools"
    /\ \A k \in 1..(Len(line) - 1) : line[k] = HDR

\* the index of the last header line at or before line i, 0 if there is none
LastHeader(lines, i) ==
    IF \E j \in 1..i : HeaderMatch(lines[j])
    THEN CHOOSE j \in 1..i :
             HeaderMatch(lines[j]) /\ \A k \in (j + 1)..i : ~HeaderMatch(lines[k])
    ELSE 0

\* line i is outside the removed sections
OutsideRemoved(lines, i) ==
    LastHeader(lines, i) = 0 \/ ~ListedHeaderLine(lines[LastHeader(lines, i)])

RECURSIVE LinesOutsideRemoved(_, _)
\* the lines from line i on that are outside the removed sections, in order
LinesOutsideRemoved(lines, i) ==
    IF i > Len(lines) THEN <<>>
    ELSE (IF OutsideRemoved(lines, i) THEN <<lines[i]>> ELSE <<>>)
         \o LinesOutsideRemoved(lines, i + 1)

C22_UpperTiersKeepPrompt ==
    /\ (Returned("adaptPromptForTier") /\ args.tier \in {"t3", "t4"}) =>
        /\ ret.systemPrompt = Some(args.systemPrompt)
        /\ ret.tier = args.tier
        /\ args.tier = "t3" => (~ret.wasAdapted /\ ret.userPreamble = None)
        /\ args.tier = "t4" =>
               /\ ret.wasAdapted
               /\ ret.userPreamble = Some(T4_PREAMBLE)
               /\ T4_PREAMBLE # ""
    /\ (Returned("routeMessage") /\ ret.bypassed) =>
        /\ ret.adaptedPrompt.systemPrompt = Some(args.systemPrompt)
        /\ ~ret.adaptedPrompt.wasAdapted
        /\ ret.adaptedPrompt.userPreamble = None

\* a t4 call on a prompt the lower tiers would compress
C22_Witness ==
    /\ Returned("adaptPromptForTier")
    /\ args.tier = "t4"
    /\ args.systemPrompt = <<NL, NL, NL, "text">>
    /\ ret.systemPrompt = Some(<<NL, NL, NL, "text">>)
    /\ ret.userPreamble # None

\* C27: on both bypass paths the bias and budget stages are skipped: the tier
\* is t3 for every bias and every budget, preferFree and reached caps
\* included, and on the explicit path the model is that of t3 even then.
C27_BypassSkipsPolicy ==
    (/\ Returned("routeMessage")
     /\ \/ args.sessionModelOverride # None
        \/ ret.classification.intent = "explicit") =>
        /\ ret.bypassed
        /\ ret.tier = "t3"
        /\ args.sessionModelOverride = None =>
               ret.model = resolveModelForTier("t3", args.routingConfig, args.cfg)
        /\ (args.sessionModelOverride = None /\ RuleTriggers(args.routingConfig.budget)) =>
               ret.model = T3ModelOf(args.routingConfig)

\* an explicit request under cost bias with preferFree and both caps reached
C27_Witness ==
    /\ Returned("routeMessage")
    /\ args.sessionModelOverride = None
    /\ ret.classification.intent = "explicit"
    /\ args.routingConfig.bias = Some("cost")
    /\ args.routingConfig.budget # None
    /\ args.routingConfig.budget[1].preferFree = Some(TRUE)
    /\ CapReached(args.routingConfig.budget[1], "dailyCapUsd", "dailyUsd")
    /\ CapReached(args.routingConfig.budget[1], "monthlyCapUsd", "monthlyUsd")
    /\ ret.tier = "t3"

\* C29: a decision that is not bypassed has a tier index of at most the
\* originalTier index plus one; the tier is above originalTier only under
\* quality bias (also while a budget rule is active: a trivial message then
\* ends at t1, not t0); under cost or balanced bias tier <= originalTier.
C29_TierWithinOneAbove ==
    Routed =>
        LET bias == IF args.routingConfig.bias = None THEN "balanced"
                    ELSE args.routingConfig.bias[1]
        IN /\ tierIndex(ret.tier) <= tierIndex(ret.originalTier) + 1
           /\ tierIndex(ret.tier) > tierIndex(ret.originalTier) => bias = "quality"
           /\ bias \in {"cost", "balanced"} => tierIndex(ret.tier) <= tierIndex(ret.originalTier)
           /\ (/\ bias = "quality"
               /\ ret.originalTier = "t0"
               /\ RuleTriggers(args.routingConfig.budget)) => ret.tier = "t1"

\* a trivial message under quality bias and preferFree ends at t1
C29_Witness ==
    /\ Routed
    /\ args.routingConfig.bias = Some("quality")
    /\ args.routingConfig.budget # None
    /\ args.routingConfig.budget[1].preferFree = Some(TRUE)
    /\ ret.originalTier = "t0"
    /\ ret.tier = "t1"

\* the paths of the loggers created so far
LoggerPaths == {loggers[i][1].filePath : i \in {j \in 1..Len(loggers) : loggers[j] # None}}

\* a step keeps the writer of p: it is not replaced, its chain only grows at
\* the end and its mkdir is not started again
WriterKept(p) ==
    writers[p] # None =>
        /\ writers'[p] # None
        /\ Len(writers'[p][1].chain) >= Len(ChainOf(p))
        /\ \A k \in 1..Len(ChainOf(p)) : writers'[p][1].chain[k].line = ChainOf(p)[k].line
        /\ writers[p][1].ready = "resolved" => writers'[p][1].ready = "resolved"

\* C26: after any sequence of createRoutingAnalyticsLogger calls there is at
\* most one writer per output path: the first enabled call for a path creates
\* it, later calls reuse it, so the records made through different loggers of
\* one path are in one chain in call order; a step touches the writer and the
\* file of one path at most; a call with enabled false returns null and
\* creates no writer and no directory.
C26_OneWriterPerPath ==
    /\ [](/\ {p \in Paths : writers[p] # None} = LoggerPaths
          /\ \A p \in Paths :
              /\ writers[p] # None =>
                     LinesIn(ChainOf(p), {"queued", "appending", "done", "failed"})
                         = LinesRecorded(p)
              /\ writers[p] = None => (~dirs[p] /\ files[p] = <<>> /\ attempts[p] = <<>>))
    /\ [][/\ \A p \in Paths : WriterKept(p)
          /\ \A p, q \in Paths :
                 (p # q /\ writers'[p] # writers[p]) =>
                     (writers'[q] = writers[q] /\ files'[q] = files[q] /\ dirs'[q] = dirs[q])
          /\ (Len(loggers') > Len(loggers) /\ loggers'[Len(loggers')] = None) =>
                 (writers' = writers /\ dirs' = dirs /\ files' = files)]_vars

\* two loggers of one path, a record made through each: one chain, call order
C26_Witness ==
    \E p \in Paths :
        /\ Len(loggers) = 2
        /\ loggers[1] # None /\ loggers[2] # None
        /\ loggers[1][1].filePath = p /\ loggers[2][1].filePath = p
        /\ Len(recordCalls) = 2
        /\ recordCalls[1].logger = 2 /\ recordCalls[2].logger = 1
        /\ LinesIn(ChainOf(p), {"queued", "appending", "done", "failed"})
               = <<<<1, NL>>, <<2, NL>>>>

\* the record call with event id was made through a logger of path p
RecordedAt(p, id) ==
    \E k \in 1..Len(recordCalls) :
        recordCalls[k].filePath = p /\ recordCalls[k].event.id = id

\* that call produced a line: JSON.stringify did not throw
SerializedAt(p, id) ==
    \E k \in 1..Len(recordCalls) :
        /\ recordCalls[k].filePath = p /\ recordCalls[k].event.id = id
        /\ ~recordCalls[k].event.cyclic

AttemptedAt(p, id) == \E k \in 1..Len(attempts[p]) : attempts[p][k] = <<id, NL>>

\* no link of any chain is waiting or in flight, no mkdir is pending
QueuesIdle ==
    \A p \in Paths : writers[p] # None =>
        /\ writers[p][1].ready = "resolved"
        /\ \A k \in 1..Len(ChainOf(p)) : ChainOf(p)[k].st \in Settled

\* C30 as stated: under fair scheduling every event passed to record is
\* eventually attempted for append.
C30_EveryEventAttempted ==
    \A p \in Paths, id \in 1..MaxRecords : RecordedAt(p, id) ~> AttemptedAt(p, id)

\* every event recorded so far that serialized has been attempted for append
SerializedAllAttempted ==
    \A p \in Paths, id \in 1..MaxRecords : SerializedAt(p, id) => AttemptedAt(p, id)

\* C30, amended: under fair scheduling every event passed to record that
\* serialized is eventually attempted for append, exactly once (not skipped
\* because an earlier one failed, not attempted twice), one that did not
\* serialize is never attempted, the queues eventually stay idle, and a file
\* whose directory was made and whose appends all succeeded holds one line for
\* every serialized event, in call order. (An event once recorded stays
\* recorded and a line once attempted stays attempted, so the appends catching
\* up with the record calls again and again is every serialized event leading
\* to its attempt.)
C30_SerializedEventsAttemptedOnce ==
    /\ []<>SerializedAllAttempted
    /\ [](\A p \in Paths :
            /\ NoRepeat(attempts[p])
            /\ \A id \in 1..MaxRecords : AttemptedAt(p, id) => SerializedAt(p, id))
    /\ <>[]QueuesIdle
    /\ [](\A p \in Paths :
            (/\ writers[p] # None
             /\ dirs[p]
             /\ \A k \in 1..Len(ChainOf(p)) : ChainOf(p)[k].st = "done")
            => files[p] = LinesRecorded(p))

\* three events recorded on one path, the second of which did not serialize;
\* the first append failed, the third succeeded, and the queue is idle
C30_Witness ==
    \E p \in Paths :
        /\ Len(recordCalls) = 3
        /\ \A k \in 1..3 : recordCalls[k].filePath = p
        /\ recordCalls[2].event.cyclic
        /\ attempts[p] = <<<<1, NL>>, <<3, NL>>>>
        /\ ChainOf(p)[1].st = "failed"
        /\ files[p] = <<<<3, NL>>>>
        /\ QueuesIdle

\* resolveModelIntelligent has returned a decision
Resolved == Returned("resolveModelIntelligent") /\ ret.result # None

\* the call that has returned made the routeMessage call of the remembered
\* routing again, with the same five inputs
SameInputsAgain ==
    /\ Resolved
    /\ remembered # None
    /\ RouteInputs(args) = remembered[1].inputs

\* an append or a mkdir of some writer is waiting or in flight
PendingIO ==
    \E p \in Paths :
        /\ writers[p] # None
        /\ \/ writers[p][1].ready = "pending"
           \/ \E k \in 1..Len(ChainOf(p)) : ChainOf(p)[k].st \notin Settled

CompleteEventOf(e, decision, latencyMs, responseSize) ==
    /\ e.event = "complete"
    /\ e.intent = decision.classification.intent
    /\ e.tier = decision.tier
    /\ e.provider = decision.model.provider
    /\ e.model = decision.model.model
    /\ e.latencyMs = latencyMs
    /\ e.responseSize = responseSize

\* the step is a call of recordRoutingCompletion
CompletionStep == op' = "recordRoutingCompletion" /\ op # "recordRoutingCompletion"

\* C24: recordRoutingCompletion records exactly one event, of kind complete,
\* with the intent, tier and model of the decision and the latency and
\* response size given, when a logger is supplied, and does nothing when the
\* logger is null; the decision is as it was after the call, and a routing
\* made after it with the inputs of an earlier one returns the same decision.
C24_CompletionRecordsOnce ==
    /\ [](Returned("recordRoutingCompletion") =>
            /\ ret.decision = args.decision
            /\ args.analytics # None =>
                   /\ Len(recorded) = 1
                   /\ CompleteEventOf(recorded[1], args.decision, args.latencyMs,
                                      args.responseSize)
            /\ args.analytics = None => recorded = <<>>)
    /\ []((SameInputsAgain /\ "recordRoutingCompletion" \in remembered[1].between)
            => ret.result[1].decision = remembered[1].decision)
    /\ [][CompletionStep =>
            /\ analyticsLogger' = analyticsLogger
            /\ dirs' = dirs /\ files' = files /\ attempts' = attempts
            /\ args'.analytics = None => (writers' = writers /\ recordCalls' = recordCalls)
            /\ args'.analytics # None =>
                   /\ Len(recordCalls') = Len(recordCalls) + 1
                   /\ SubSeq(recordCalls', 1, Len(recordCalls)) = recordCalls
                   /\ recordCalls'[Len(recordCalls')].filePath
                          = args'.analytics[1].filePath
                   /\ \A p \in Paths : p # args'.analytics[1].filePath =>
                          writers'[p] = writers[p]]_vars

\* a completion call with the logger of the result has returned: the route
\* event and the complete event are the two lines of the writer's chain
C24_Witness ==
    /\ Returned("recordRoutingCompletion")
    /\ args.analytics # None
    /\ Len(recorded) = 1
    /\ recorded[1].event = "complete"
    /\ args.responseSize # None
    /\ Len(recordCalls) = 2
    /\ Len(ChainOf(args.analytics[1].filePath)) = 2

\* cfg.intelligentRouting is present and its enabled flag is true
RoutingEnabled(params) ==
    /\ params.cfg.intelligentRouting # None
    /\ params.cfg.intelligentRouting[1].enabled = Some(TRUE)

\* the step is a call of resolveModelIntelligent
ResolveStep == pc = "idle" /\ op' = "resolveModelIntelligent"

\* C25: resolveModelIntelligent returns null when cfg.intelligentRouting is
\* missing or its enabled flag is not true, and then the router is not
\* called, no logger and no writer is created and nothing is recorded; when
\* routing is enabled it returns the decision of routeMessage, with
\* useAdaptedPrompt equal to decision.adaptedPrompt.wasAdapted.
C25_FeatureFlagGate ==
    /\ [](Returned("resolveModelIntelligent") =>
            /\ ~RoutingEnabled(args) =>
                   (ret.result = None /\ ~ret.routed /\ recorded = <<>>)
            /\ RoutingEnabled(args) =>
                   /\ ret.result # None
                   /\ ret.routed
                   /\ ret.result[1].decision =
                          routeMessage(routerParams(args, args.cfg.intelligentRouting[1],
                                                    ret.result[1].analytics)).decision
                   /\ ret.result[1].useAdaptedPrompt =
                          ret.result[1].decision.adaptedPrompt.wasAdapted)
    /\ [][(ResolveStep /\ ~RoutingEnabled(args')) =>
            /\ analyticsLogger' = analyticsLogger
            /\ writers' = writers
            /\ recordCalls' = recordCalls]_vars

\* a call with the section present, enabled false and analytics true has
\* returned null, leaving the process without logger and writer, after a call
\* with routing enabled that returned a decision with an adapted prompt
C25_Witness ==
    /\ Returned("resolveModelIntelligent")
    /\ args.cfg.intelligentRouting # None
    /\ args.cfg.intelligentRouting[1].enabled = Some(FALSE)
    /\ args.cfg.intelligentRouting[1].analytics = Some(TRUE)
    /\ ret.result = None
    /\ analyticsLogger = None
    /\ \A p \in Paths : writers[p] = None
    /\ remembered # None
    /\ remembered[1].decision.adaptedPrompt.wasAdapted

\* the path a logger made from a routing config writes to
ConfiguredPath(routingConfig) ==
    IF routingConfig.analyticsPath # None THEN routingConfig.analyticsPath[1]
    ELSE DEFAULT_ANALYTICS_PATH

\* C28: across the resolveModelIntelligent calls of a process the adapter
\* holds at most one logger: while none exists, a call with routing enabled
\* creates one if and only if its analytics flag is true; a logger once
\* created is never replaced, and every later call records to its path,
\* whatever the analytics flag and the analyticsPath of that call.
C28_SingletonLogger ==
    /\ [](/\ Cardinality({p \in Paths : writers[p] # None}) <= 1
          /\ analyticsLogger = None =>
                 (recordCalls = <<>> /\ \A p \in Paths : writers[p] = None)
          /\ analyticsLogger # None =>
                 /\ writers[analyticsLogger[1].filePath] # None
                 /\ \A k \in 1..Len(recordCalls) :
                        recordCalls[k].filePath = analyticsLogger[1].filePath)
    /\ [][/\ analyticsLogger # None => analyticsLogger' = analyticsLogger
          /\ (ResolveStep /\ RoutingEnabled(args')) =>
                 LET rc == args'.cfg.intelligentRouting[1] IN
                 /\ analyticsLogger = None =>
                        /\ analyticsLogger' # None <=> rc.analytics = Some(TRUE)
                        /\ analyticsLogger' # None =>
                               analyticsLogger'[1].filePath = ConfiguredPath(rc)
                 /\ analyticsLogger' # None =>
                        /\ Len(recordCalls') = Len(recordCalls) + 1
                        /\ recordCalls'[Len(recordCalls')].filePath
                               = analyticsLogger'[1].filePath]_vars

\* the logger was created for the custom path; a later call whose config has
\* analytics false and no analyticsPath has recorded to the custom path
C28_Witness ==
    /\ Returned("resolveModelIntelligent")
    /\ RoutingEnabled(args)
    /\ args.cfg.intelligentRouting[1].analytics = Some(FALSE)
    /\ args.cfg.intelligentRouting[1].analyticsPath = None
    /\ analyticsLogger # None
    /\ analyticsLogger[1].filePath = "custom/analytics.jsonl"
    /\ Len(recorded) = 1
    /\ Len(recordCalls) >= 2
    /\ recordCalls[Len(recordCalls)].filePath = "custom/analytics.jsonl"

====
